---------------------------- MODULE Spec2Model ----------------------------
(***************************************************************************)
(* Model of the BoxToPlay rotation worker (src/worker.py).                 *)
(*                                                                         *)
(* Python strings are sequences of one-character strings, and None where a *)
(* string is expected is the one-element sequence <<"None">> (no string of *)
(* the model contains a multi-character element).  A dict is a function    *)
(* from key names to values, the empty dict is the empty function <<>>,    *)
(* and None where a dict is expected is NoneDict.                          *)
(*                                                                         *)
(* Every external call (the state store, the provider through Selenium,    *)
(* the lftp transfer tool, the local file system) takes its outcome from a *)
(* small set with \E.  The state-store PATCH is taken to be atomic: it     *)
(* either replaces the document and returns, or raises and leaves the      *)
(* document alone.                                                         *)
(***************************************************************************)
EXTENDS Integers, Sequences, FiniteSets, TLC

(***************************************************************************)
(* Bounds of the model.                                                    *)
(***************************************************************************)
MaxRuns == 2

(***************************************************************************)
(* Program constants.                                                      *)
(***************************************************************************)
PollAttempts == 10
MinHostLen == 5
MinUserLen == 3

(***************************************************************************)
(* Python values.                                                          *)
(***************************************************************************)
None == <<"None">>

EmptyDict == <<>>

NoneDict == [none |-> "None"]

\* truth value of a string or None
Truthy(v) == v # None /\ v # <<>>

\* truth value of a dict or None
TruthyDict(d) == d # NoneDict /\ d # EmptyDict

Digits == {"0", "1", "2", "3", "4", "5", "6", "7", "8", "9"}

DigitChars == <<"0", "1", "2", "3", "4", "5", "6", "7", "8", "9">>

\* mutant: any non-empty string is taken for a number
IsDigitNonEmpty(s) == Len(s) > 0

\* str.isdigit(): non-empty and every character a digit
IsDigit(s) == Len(s) > 0 /\ \A i \in 1..Len(s) : s[i] \in Digits

\* str(v) of a value that is a string or None
Str(v) == IF v = None THEN <<"N", "o", "n", "e">> ELSE v

\* decimal rendering of a natural number
RECURSIVE ToDigits(_)
ToDigits(n) == IF n < 10 THEN <<DigitChars[n + 1]>>
               ELSE ToDigits(n \div 10) \o <<DigitChars[(n % 10) + 1]>>

\* str.lstrip(ch)
RECURSIVE Lstrip(_, _)
Lstrip(s, ch) == IF Len(s) > 0 /\ s[1] = ch THEN Lstrip(Tail(s), ch) ELSE s

\* sub in s
Contains(s, sub) ==
    \E i \in 0..(Len(s) - Len(sub)) :
        \A j \in 1..Len(sub) : s[i + j] = sub[j]

UpperToLower == [B |-> "b", O |-> "o", X |-> "x", T |-> "t", P |-> "p",
                 L |-> "l", A |-> "a", Y |-> "y", F |-> "f", C |-> "c",
                 M |-> "m"]

\* str.lower()
Lower(s) == [i \in 1..Len(s) |->
                IF s[i] \in DOMAIN UpperToLower THEN UpperToLower[s[i]] ELSE s[i]]

\* dict.get(key, default)
Get(d, key, default) == IF key \in DOMAIN d THEN d[key] ELSE default

DomainMarker == <<"b", "o", "x", "t", "o", "p", "l", "a", "y">>

DefaultPass == <<"d", "e", "f">>

(***************************************************************************)
(* The validation gate.                                                    *)
(***************************************************************************)
ServerIdErrors(server_id) ==
    IF ~Truthy(server_id) THEN {"server_id empty"}
    ELSE IF ~IsDigit(Str(server_id)) THEN {"server_id not a number"}
    ELSE {}

FtpHostErrors(ftp_host) ==
    IF ~Truthy(ftp_host) THEN {"ftp_host empty"}
    ELSE IF ~Contains(Lower(ftp_host), DomainMarker) /\ ~Contains(ftp_host, <<".">>)
         THEN {"ftp_host invalid"}
    ELSE {}

FtpUserErrors(ftp_user) ==
    IF ~Truthy(ftp_user) THEN {"ftp_user empty"}
    ELSE IF Len(ftp_user) < MinUserLen THEN {"ftp_user too short"}
    ELSE {}

validate_server_info_errors(server_id, ftp_host, ftp_user) ==
    ServerIdErrors(server_id) \cup FtpHostErrors(ftp_host) \cup FtpUserErrors(ftp_user)

validate_server_info(server_id, ftp_host, ftp_user) ==
    validate_server_info_errors(server_id, ftp_host, ftp_user) = {}

HasSession(cookies) == Truthy(Get(cookies, "BOXTOPLAY_SESSION", None))

\* mutant: the checks of the target account stop at the first that fails
validate_state_errors_first(st, target_index) ==
    LET target_account == st.accounts[target_index] IN
      IF st.active_account_index \notin {0, 1} THEN {"active_account_index invalid"}
      ELSE IF Truthy(st.current_server_id) /\ ~IsDigit(Str(st.current_server_id))
           THEN {"current_server_id invalid"}
      ELSE IF ~Truthy(target_account.server_id) THEN {"server_id missing"}
      ELSE IF ~Truthy(target_account.ftp_host) THEN {"ftp_host missing"}
      ELSE IF ~Truthy(target_account.ftp_user) THEN {"ftp_user missing"}
      ELSE IF target_account.cookies = EmptyDict \/ ~HasSession(target_account.cookies)
           THEN {"cookies invalid"}
      ELSE IF Str(st.current_server_id) # Str(target_account.server_id)
              /\ Truthy(st.current_server_id)
           THEN {"incoherent"}
      ELSE {}

\* the errors list of validate_state_before_save past the structure check
validate_state_errors(st, target_index) ==
    LET target_account == st.accounts[target_index] IN
      (IF st.active_account_index \notin {0, 1}
         THEN {"active_account_index invalid"} ELSE {})
      \cup (IF Truthy(st.current_server_id) /\ ~IsDigit(Str(st.current_server_id))
              THEN {"current_server_id invalid"} ELSE {})
      \cup (IF ~Truthy(target_account.server_id) THEN {"server_id missing"} ELSE {})
      \cup (IF ~Truthy(target_account.ftp_host) THEN {"ftp_host missing"} ELSE {})
      \cup (IF ~Truthy(target_account.ftp_user) THEN {"ftp_user missing"} ELSE {})
      \cup (IF target_account.cookies = EmptyDict \/ ~HasSession(target_account.cookies)
              THEN {"cookies invalid"} ELSE {})
      \cup (IF /\ Truthy(st.current_server_id)
               /\ Truthy(target_account.server_id)
               /\ Str(st.current_server_id) # Str(target_account.server_id)
              THEN {"incoherent"} ELSE {})

\* mutant: only the structure of the document is checked
validate_state_structure(st, target_index) == DOMAIN st.accounts = {0, 1}

validate_state_before_save(st, target_index) ==
    IF DOMAIN st.accounts # {0, 1} THEN FALSE
    ELSE validate_state_errors(st, target_index) = {}


(***************************************************************************)
(* The state document and the provider.                                    *)
(***************************************************************************)
Procs == {1, 2}

SeqProcs == {1}

Slots == {0, 1}

Email(i) == <<"e", DigitChars[i + 1]>>

Password(i) == <<"p", DigitChars[i + 1]>>

SeedServerId == 8

FirstNewId == SeedServerId + 1

FirstClock == 41

DnsLabel == <<"o", "r", "n", "y">>

GistSecret == <<"g", "s", "t">>

EnvSecret == <<"e", "n", "v">>

HostOf(id) == <<"f", "t", "p">> \o ToDigits(id) \o <<".">> \o DomainMarker

UserAt(t) == <<"u", "s", "e", "r", "_">> \o ToDigits(t)

TokenAt(t) == <<"s">> \o ToDigits(t)

DormantAccount(i) ==
    [email |-> Email(i), password |-> Password(i), cookies |-> EmptyDict,
     ftp_host |-> None, ftp_user |-> None, server_id |-> None]

LiveAccount(i) ==
    [email |-> Email(i), password |-> Password(i),
     cookies |-> [BOXTOPLAY_SESSION |-> TokenAt(FirstClock - 1)],
     ftp_host |-> HostOf(SeedServerId), ftp_user |-> UserAt(FirstClock - 1),
     server_id |-> ToDigits(SeedServerId)]

\* the document of a system that never rotated
SeedFirst ==
    [active_account_index |-> 0, current_server_id |-> None,
     ftp_password |-> GistSecret,
     accounts |-> [i \in Slots |-> DormantAccount(i)]]

\* the document of a system whose slot a owns the live server
SeedActive(a) ==
    [active_account_index |-> a, current_server_id |-> ToDigits(SeedServerId),
     ftp_password |-> GistSecret,
     accounts |-> [i \in Slots |-> IF i = a THEN LiveAccount(i) ELSE DormantAccount(i)]]

\* a document written by hand for a server that was rented outside the
\* worker: its id is on file, but its FTP account, which only
\* setup_ftp_account creates, is not (get_state accepts any document)
SeedNoFtp ==
    [SeedActive(0) EXCEPT !.accounts[0].ftp_host = None,
                          !.accounts[0].ftp_user = None]

\* a server is "created" by the purchase, "running" once started and
\* "stopped" once stopped; ftp_pass is the password of the FTP account
\* setup_ftp_account made on it, None when no run considered here made one
NoServer == [id |-> 0, status |-> "none", dns |-> <<>>, ftp_pass |-> None]

SeedServers(doc) ==
    [i \in Slots |->
        IF Truthy(doc.accounts[i].server_id)
        THEN [id |-> SeedServerId, status |-> "running", dns |-> DnsLabel,
              ftp_pass |-> None]
        ELSE NoServer]

VARIABLES
    gist,           \* the persisted state document (boxtoplay.json)
    servers,        \* provider: each account's most recent server
    nextId,         \* provider: the id of the next server it creates
    temp_dir,       \* whether TEMP_DIR exists on the local file system
    FTP_PASSWORD,   \* the operator-supplied secret ("" when unset)
    clock,          \* int(time.time()) of the run in progress
    runs,           \* number of runs started so far
    pc,             \* each run's position in main()
    state,          \* main: the loaded document
    current_index,  \* main: current_index
    source_ftp,     \* main: source_ftp
    target_result,  \* main: target_result
    driver,         \* main: whether the run holds an open browser
    orphans,        \* whether a browser the run opened and let go is still open
    exit_code,      \* main: the value returned
    server_id,      \* process_*_account: server_id
    attempt,        \* process_target_account: polling attempts made
    ftp_info,       \* process_target_account: ftp_info
    fresh_cookies,  \* process_target_account: fresh_cookies
    download_ok,    \* transfer_world_data: download_ok
    upload_ok,      \* transfer_world_data: upload_ok
    transfer_ret,   \* the value transfer_world_data returned
    calls,          \* history: the external calls the run issued, <<op, slot>>
    writes,         \* history: PATCH requests the run sent to the store
    before          \* history: the document when the run began

vars == <<gist, servers, nextId, temp_dir, FTP_PASSWORD, clock, runs, pc, state,
          current_index, source_ftp, target_result, driver, orphans, exit_code,
          server_id, attempt, ftp_info, fresh_cookies, download_ok, upload_ok,
          transfer_ret, calls, writes, before>>

world == <<gist, servers, nextId, temp_dir>>

config == <<FTP_PASSWORD, clock, runs>>

mainLocals == <<state, current_index, source_ftp, target_result, exit_code>>

accountLocals == <<server_id, attempt, ftp_info, fresh_cookies>>

transferLocals == <<download_ok, upload_ok, transfer_ret>>

history == <<calls, writes, before>>

Unset == "unset"

next_index(r) == IF current_index[r] = 0 THEN 1 ELSE 0

active_account(r) == state[r].accounts[current_index[r]]

target_account(r) == state[r].accounts[next_index(r)]

\* main line 1094
ftp_password(r) ==
    IF Truthy(FTP_PASSWORD) THEN FTP_PASSWORD
    ELSE Get(state[r], "ftp_password", DefaultPass)

Goto(r, label) ==
    /\ pc' = [pc EXCEPT ![r] = label]
    /\ UNCHANGED exit_code

\* main returns code through the finally clause
Return(r, code) ==
    /\ pc' = [pc EXCEPT ![r] = "finally"]
    /\ exit_code' = [exit_code EXCEPT ![r] = code]

\* mutant: the except clause of main returns 0
RaiseReturnsZero(r) == Return(r, 0)

\* an exception reaches main's except clause: return 1
Raise(r) == Return(r, 1)

Log(r, events) == calls' = [calls EXCEPT ![r] = @ \cup events]

\* the slot of an event that concerns no slot
NoSlot == Cardinality(Slots)

Call(op, slot) == <<op, slot>>

Failure(op, slot) == <<op \o " failed", slot>>

\* a failure that is logged as a warning and swallowed
Warning(op) == <<op \o " warning", NoSlot>>

\* the swallowed failures of the run's cleanups
Warnings(r) == calls[r] \cap {Warning("close_driver"), Warning("cleanup_temp_dir")}

\* the operations of a run that can fail
FailureOps ==
    {"config", "get_state", "create_driver_2", "create_driver_3", "create_driver_5",
     "login", "change_server_dns", "stop_server", "buy_free_server", "poll",
     "setup_ftp_account", "install_modpack", "validation", "ensure_temp_dir",
     "lftp_download", "lftp_upload", "finalize_login", "start_server",
     "pre_save_check", "validate_state_before_save", "update_state"}

\* the failures the run met so far
Failures(r) ==
    calls[r] \cap {Failure(op, slot) : op \in FailureOps, slot \in Slots \cup {NoSlot}}

Init ==
    /\ gist \in {SeedFirst, SeedActive(0), SeedActive(1), SeedNoFtp}
    /\ servers = SeedServers(gist)
    /\ nextId = FirstNewId
    /\ temp_dir = FALSE
    /\ FTP_PASSWORD \in {<<>>, EnvSecret}
    /\ clock = FirstClock
    /\ runs = 0
    /\ pc = [r \in Procs |-> "idle"]
    /\ state = [r \in Procs |-> NoneDict]
    /\ current_index = [r \in Procs |-> 0]
    /\ source_ftp = [r \in Procs |-> NoneDict]
    /\ target_result = [r \in Procs |-> NoneDict]
    /\ driver = [r \in Procs |-> FALSE]
    /\ orphans = [r \in Procs |-> FALSE]
    /\ exit_code = [r \in Procs |-> Unset]
    /\ server_id = [r \in Procs |-> None]
    /\ attempt = [r \in Procs |-> 0]
    /\ ftp_info = [r \in Procs |-> NoneDict]
    /\ fresh_cookies = [r \in Procs |-> EmptyDict]
    /\ download_ok = [r \in Procs |-> Unset]
    /\ upload_ok = [r \in Procs |-> Unset]
    /\ transfer_ret = [r \in Procs |-> Unset]
    /\ calls = [r \in Procs |-> {}]
    /\ writes = [r \in Procs |-> 0]
    /\ before = [r \in Procs |-> gist]

(***************************************************************************)
(* main(): the configuration check and step 1.                             *)
(***************************************************************************)
\* a new process enters main(); GIST_ID / GH_TOKEN are set or not
RunStart(r) ==
    /\ pc[r] \in {"idle", "done"}
    /\ runs < MaxRuns
    /\ runs' = runs + 1
    /\ clock' = clock + 1
    /\ before' = [before EXCEPT ![r] = gist]
    /\ state' = [state EXCEPT ![r] = NoneDict]
    /\ current_index' = [current_index EXCEPT ![r] = 0]
    /\ source_ftp' = [source_ftp EXCEPT ![r] = NoneDict]
    /\ target_result' = [target_result EXCEPT ![r] = NoneDict]
    /\ server_id' = [server_id EXCEPT ![r] = None]
    /\ attempt' = [attempt EXCEPT ![r] = 0]
    /\ ftp_info' = [ftp_info EXCEPT ![r] = NoneDict]
    /\ fresh_cookies' = [fresh_cookies EXCEPT ![r] = EmptyDict]
    /\ download_ok' = [download_ok EXCEPT ![r] = Unset]
    /\ upload_ok' = [upload_ok EXCEPT ![r] = Unset]
    /\ transfer_ret' = [transfer_ret EXCEPT ![r] = Unset]
    /\ writes' = [writes EXCEPT ![r] = 0]
    /\ orphans' = [orphans EXCEPT ![r] = FALSE]
    /\ \E configured \in BOOLEAN :
         IF configured
         THEN /\ pc' = [pc EXCEPT ![r] = "get_state"]
              /\ exit_code' = [exit_code EXCEPT ![r] = Unset]
              /\ calls' = [calls EXCEPT ![r] = {}]
         ELSE /\ pc' = [pc EXCEPT ![r] = "done"]
              /\ exit_code' = [exit_code EXCEPT ![r] = 1]
              /\ calls' = [calls EXCEPT ![r] = {Failure("config", NoSlot)}]
    /\ UNCHANGED <<world, FTP_PASSWORD, driver>>

\* get_state() and the locals computed from the document
GetState(r) ==
    /\ pc[r] = "get_state"
    /\ \E fetched \in BOOLEAN :
         IF fetched
         THEN /\ state' = [state EXCEPT ![r] = gist]
              /\ current_index' = [current_index EXCEPT ![r] =
                                      Get(gist, "active_account_index", 0)]
              /\ Goto(r, "create_driver_2")
              /\ Log(r, {Call("get_state", NoSlot)})
         ELSE /\ Raise(r)
              /\ Log(r, {Call("get_state", NoSlot), Failure("get_state", NoSlot)})
              /\ UNCHANGED <<state, current_index>>
    /\ UNCHANGED <<world, config, source_ftp, target_result, driver, orphans, accountLocals,
                   transferLocals, writes, before>>

\* create_headless_driver() at steps 2, 3 and 5
AfterCreate == [create_driver_2 |-> "active", create_driver_3 |-> "target_login",
                create_driver_5 |-> "finalize_login"]

CreateDriver(r) ==
    /\ pc[r] \in DOMAIN AfterCreate
    /\ \E started \in BOOLEAN :
         IF started
         THEN /\ driver' = [driver EXCEPT ![r] = TRUE]
              /\ Goto(r, AfterCreate[pc[r]])
              /\ UNCHANGED calls
         ELSE /\ Raise(r)
              /\ Log(r, {Failure(pc[r], NoSlot)})
              /\ UNCHANGED driver
    /\ UNCHANGED <<world, config, state, current_index, source_ftp, target_result,
                   orphans, accountLocals, transferLocals, writes, before>>

\* close_driver(driver): driver.quit() ends the browser, or raises, and the
\* exception is logged as a warning and swallowed: the browser stays open.
\* Whether a browser of the run is left open after close_driver
Orphaned(r, held, quit) == orphans[r] \/ (held /\ ~quit)

\* what close_driver logs
CloseEvents(held, quit) == IF held /\ ~quit THEN {Warning("close_driver")} ELSE {}

\* mutant: step 4 is left out, step 5 follows step 3
AfterCloseSkipsTransfer ==
    [close_driver_2 |-> "create_driver_3", close_driver_3 |-> "create_driver_5",
     close_driver_5 |-> "save"]

\* close_driver(driver); driver = None
AfterClose == [close_driver_2 |-> "create_driver_3", close_driver_3 |-> "transfer",
               close_driver_5 |-> "save"]

CloseDriver(r) ==
    /\ pc[r] \in DOMAIN AfterClose
    /\ \E quit \in BOOLEAN :
         /\ orphans' = [orphans EXCEPT ![r] = Orphaned(r, driver[r], quit)]
         /\ Log(r, CloseEvents(driver[r], quit))
    /\ driver' = [driver EXCEPT ![r] = FALSE]
    /\ Goto(r, AfterClose[pc[r]])
    /\ UNCHANGED <<world, config, state, current_index, source_ftp, target_result,
                   accountLocals, transferLocals, writes, before>>

(***************************************************************************)
(* The provider as the Selenium adapter sees it.                           *)
(***************************************************************************)
GarbageText == <<"#", "S", "r", "v">>

\* the panel shows "#<id>" for the account's most recent server
ServerText(id) == <<"#">> \o ToDigits(id)

\* what get_current_server_id can return for an account: None (no server,
\* or a scraping error), or the heading's text with the leading # removed
ScrapedIds(slot) ==
    {None} \cup
    (IF servers[slot].id # 0
       THEN {Lstrip(ServerText(servers[slot].id), "#"), Lstrip(GarbageText, "#")}
       ELSE {})

Owns(slot, sid) == servers[slot].id # 0 /\ ToDigits(servers[slot].id) = sid

\* the provider's reaction to setServerDNS / stop / start for server sid
WithDns(slot, sid, label) ==
    IF Owns(slot, sid) THEN [servers EXCEPT ![slot].dns = label] ELSE servers

\* the provider's reaction to the FTP account form of server sid: the
\* account exists with the password that was typed in
WithFtpAccount(slot, sid, password) ==
    IF Owns(slot, sid) THEN [servers EXCEPT ![slot].ftp_pass = password] ELSE servers

WithStatus(slot, sid, status) ==
    IF Owns(slot, sid) THEN [servers EXCEPT ![slot].status = status] ELSE servers

\* mutant: the caller goes on whatever the two logins returned
LoggedInRegardless(cookie, cookie_ok, cred_ok) == TRUE

LoggedIn(cookie, cookie_ok, cred_ok) == (Truthy(cookie) /\ cookie_ok) \/ cred_ok

\* a login that returned False
Rejected(op, slot) == <<op \o " rejected", slot>>

\* login_with_cookie, then login_with_credentials if it failed: the calls
\* issued, those that returned False, and whether both failed
LoginCalls(slot, cookie, cookie_ok, cred_ok) ==
    (IF Truthy(cookie) THEN {Call("login_with_cookie", slot)} ELSE {})
    \cup (IF Truthy(cookie) /\ ~cookie_ok
          THEN {Rejected("login_with_cookie", slot)} ELSE {})
    \cup (IF Truthy(cookie) /\ cookie_ok THEN {}
          ELSE {Call("login_with_credentials", slot)})
    \cup (IF ~(Truthy(cookie) /\ cookie_ok) /\ ~cred_ok
          THEN {Rejected("login_with_credentials", slot)} ELSE {})
    \cup (IF LoggedIn(cookie, cookie_ok, cred_ok) THEN {}
          ELSE {Failure("login", slot)})

StoredCookie(account) ==
    Get(Get(account, "cookies", EmptyDict), "BOXTOPLAY_SESSION", <<>>)

\* a driver call of change_server_dns, stop_server or start_server: it takes
\* effect at the provider, or raises, or takes effect and then raises
DriverOutcomes == {<<TRUE, FALSE>>, <<TRUE, TRUE>>, <<FALSE, TRUE>>}

(***************************************************************************)
(* Step 2: process_active_account.                                         *)
(***************************************************************************)
\* lines 923-927: the transfer source read from the outgoing account
ActiveFtpInfoOf(account) ==
    [host |-> Get(account, "ftp_host", None),
     user |-> Get(account, "ftp_user", None),
     password |-> IF Truthy(FTP_PASSWORD) THEN FTP_PASSWORD
                  ELSE Get(account, "ftp_password", <<>>)]

\* mutant: the source is captured although no login worked
AbandonedSourceCaptures(account) == ActiveFtpInfoOf(account)

\* line 909: what process_active_account returns when no login worked
AbandonedSource(account) == NoneDict

\* main: the outgoing slot has no ftp_host, nothing to stop
ActiveSkip(r) ==
    /\ pc[r] = "active"
    /\ ~Truthy(Get(active_account(r), "ftp_host", None))
    /\ source_ftp' = [source_ftp EXCEPT ![r] = NoneDict]
    /\ Goto(r, "close_driver_2")
    /\ UNCHANGED <<world, config, state, current_index, target_result, driver, orphans,
                   accountLocals, transferLocals, history>>

ActiveLogin(r) ==
    /\ pc[r] = "active"
    /\ Truthy(Get(active_account(r), "ftp_host", None))
    /\ \E cookie_ok \in BOOLEAN, cred_ok \in BOOLEAN :
         LET cookie == StoredCookie(active_account(r)) IN
           /\ Log(r, LoginCalls(current_index[r], cookie, cookie_ok, cred_ok))
           /\ IF LoggedIn(cookie, cookie_ok, cred_ok)
              THEN /\ Goto(r, "active_server_id")
                   /\ UNCHANGED source_ftp
              ELSE /\ Goto(r, "close_driver_2")
                   /\ source_ftp' = [source_ftp EXCEPT ![r] =
                                        AbandonedSource(active_account(r))]
    /\ UNCHANGED <<world, config, state, current_index, target_result, driver, orphans,
                   accountLocals, transferLocals, writes, before>>

ActiveServerId(r) ==
    /\ pc[r] = "active_server_id"
    /\ Log(r, {Call("get_current_server_id", current_index[r])})
    /\ \E sid \in ScrapedIds(current_index[r]) :
         /\ server_id' = [server_id EXCEPT ![r] = sid]
         /\ IF Truthy(sid) THEN Goto(r, "active_dns") ELSE Goto(r, "active_ftp_info")
    /\ UNCHANGED <<world, config, state, current_index, source_ftp, target_result,
                   driver, orphans, attempt, ftp_info, fresh_cookies, transferLocals, writes,
                   before>>

\* change_server_dns(driver, server_id, "")
ActiveChangeDns(r) ==
    /\ pc[r] = "active_dns"
    /\ \E o \in DriverOutcomes :
         /\ servers' = IF o[1] THEN WithDns(current_index[r], server_id[r], <<>>)
                       ELSE servers
         /\ IF o[2]
            THEN /\ Raise(r)
                 /\ Log(r, {Call("change_server_dns", current_index[r]),
                            Failure("change_server_dns", current_index[r])})
            ELSE /\ Goto(r, "active_stop")
                 /\ Log(r, {Call("change_server_dns", current_index[r])})
    /\ UNCHANGED <<gist, nextId, temp_dir, config, state, current_index, source_ftp,
                   target_result, driver, orphans, accountLocals, transferLocals, writes,
                   before>>

\* stop_server(driver, server_id)
ActiveStop(r) ==
    /\ pc[r] = "active_stop"
    /\ \E o \in DriverOutcomes :
         /\ servers' = IF o[1] THEN WithStatus(current_index[r], server_id[r], "stopped")
                       ELSE servers
         /\ IF o[2]
            THEN /\ Raise(r)
                 /\ Log(r, {Call("stop_server", current_index[r]),
                            Failure("stop_server", current_index[r])})
            ELSE /\ Goto(r, "active_ftp_info")
                 /\ Log(r, {Call("stop_server", current_index[r])})
    /\ UNCHANGED <<gist, nextId, temp_dir, config, state, current_index, source_ftp,
                   target_result, driver, orphans, accountLocals, transferLocals, writes,
                   before>>

\* ftp_info of the outgoing account, logout, return
ActiveFtpInfo(r) ==
    /\ pc[r] = "active_ftp_info"
    /\ source_ftp' = [source_ftp EXCEPT ![r] = ActiveFtpInfoOf(active_account(r))]
    /\ Log(r, {Call("logout", current_index[r])})
    /\ server_id' = [server_id EXCEPT ![r] = None]
    /\ Goto(r, "close_driver_2")
    /\ UNCHANGED <<world, config, state, current_index, target_result, driver, orphans,
                   attempt, ftp_info, fresh_cookies, transferLocals, writes, before>>

(***************************************************************************)
(* Step 3: process_target_account.                                         *)
(***************************************************************************)
\* mutant: like process_active_account, the function gives up and returns None
TargetLoginFailedReturnsNone(r) == Goto(r, "close_driver_3")

\* line 959: no login against the target account worked
TargetLoginFailed(r) == Raise(r)

TargetLogin(r) ==
    /\ pc[r] = "target_login"
    /\ \E cookie_ok \in BOOLEAN, cred_ok \in BOOLEAN :
         LET cookie == StoredCookie(target_account(r)) IN
           /\ Log(r, LoginCalls(next_index(r), cookie, cookie_ok, cred_ok))
           /\ IF LoggedIn(cookie, cookie_ok, cred_ok)
              THEN Goto(r, "target_buy")
              ELSE TargetLoginFailed(r)
    /\ UNCHANGED <<world, config, state, current_index, source_ftp, target_result,
                   driver, orphans, accountLocals, transferLocals, writes, before>>

\* what the rental page offers when buy_free_server opens it
Offers == {"free", "priced", "unavailable"}

Offered(offer, slot) == <<"offer " \o offer, slot>>

\* how far buy_free_server got: a driver call raised before the item was in
\* the cart (0), at the checkout click (1), after it (2), or none did (3)
BuyProgress == 0 .. 3

\* buy_free_server: whatever the page offers, the item is put in the cart and
\* the order is checked out; the function returns True unless one of its
\* driver calls raised.  The provider creates a server only for a validated
\* order of the free offering.
TargetBuy(r) ==
    /\ pc[r] = "target_buy"
    /\ \E offer \in Offers, reached \in BuyProgress, created \in BOOLEAN :
         /\ created => (offer = "free" /\ reached >= 2)
         /\ IF created
            THEN /\ servers' = [servers EXCEPT ![next_index(r)] =
                                   [id |-> nextId, status |-> "created", dns |-> <<>>,
                                    ftp_pass |-> None]]
                 /\ nextId' = nextId + 1
            ELSE UNCHANGED <<servers, nextId>>
         /\ IF reached = 3 THEN Goto(r, "target_poll") ELSE Raise(r)
         /\ Log(r, {Call("buy_free_server", next_index(r))}
                   \cup (IF offer # "free" THEN {Offered(offer, next_index(r))} ELSE {})
                   \cup (IF reached >= 1 THEN {Call("ajoutPanier", next_index(r))} ELSE {})
                   \cup (IF reached >= 2 THEN {Call("checkout", next_index(r))} ELSE {})
                   \cup (IF created THEN {Call("server created", next_index(r))} ELSE {})
                   \cup (IF reached = 3 THEN {}
                         ELSE {Failure("buy_free_server", next_index(r))}))
    /\ attempt' = [attempt EXCEPT ![r] = 0]
    /\ UNCHANGED <<gist, temp_dir, config, state, current_index, source_ftp,
                   target_result, driver, orphans, server_id, ftp_info, fresh_cookies,
                   transferLocals, writes, before>>

\* one iteration of the polling loop; attempt counts the iterations that
\* found nothing, and the loop variable is dead once the loop is left
TargetPoll(r) ==
    /\ pc[r] = "target_poll"
    /\ attempt[r] < PollAttempts
    /\ Log(r, {Call("get_current_server_id", next_index(r))})
    /\ \E sid \in ScrapedIds(next_index(r)) :
         /\ server_id' = [server_id EXCEPT ![r] = sid]
         /\ IF Truthy(sid)
            THEN /\ Goto(r, "target_dns")
                 /\ attempt' = [attempt EXCEPT ![r] = 0]
            ELSE /\ Goto(r, "target_poll")
                 /\ attempt' = [attempt EXCEPT ![r] = @ + 1]
    /\ UNCHANGED <<world, config, state, current_index, source_ftp, target_result,
                   driver, orphans, ftp_info, fresh_cookies, transferLocals, writes, before>>

\* mutant: the check after the loop is missing
TargetPollExhaustedGoesOn(r) ==
    /\ pc[r] = "target_poll"
    /\ attempt[r] >= PollAttempts
    /\ Goto(r, "target_dns")
    /\ UNCHANGED <<world, config, state, current_index, source_ftp, target_result,
                   driver, orphans, accountLocals, transferLocals, history>>

\* the loop ran out: "Serveur non trouve apres l'achat"
TargetPollExhausted(r) ==
    /\ pc[r] = "target_poll"
    /\ attempt[r] >= PollAttempts
    /\ Raise(r)
    /\ Log(r, {Failure("poll", next_index(r))})
    /\ UNCHANGED <<world, config, state, current_index, source_ftp, target_result,
                   driver, orphans, accountLocals, transferLocals, writes, before>>

\* change_server_dns(driver, server_id, IP_NEW_SERVER)
TargetChangeDns(r) ==
    /\ pc[r] = "target_dns"
    /\ \E o \in DriverOutcomes :
         /\ servers' = IF o[1] THEN WithDns(next_index(r), server_id[r], DnsLabel)
                       ELSE servers
         /\ IF o[2]
            THEN /\ Raise(r)
                 /\ Log(r, {Call("change_server_dns", next_index(r)),
                            Failure("change_server_dns", next_index(r))})
            ELSE /\ Goto(r, "target_ftp")
                 /\ Log(r, {Call("change_server_dns", next_index(r))})
    /\ UNCHANGED <<gist, nextId, temp_dir, config, state, current_index, source_ftp,
                   target_result, driver, orphans, accountLocals, transferLocals, writes,
                   before>>

\* the host cell of the FTP page as the scraper can read it
HostTexts(slot) ==
    {HostOf(servers[slot].id), <<"a", ".", "b">>, <<"l", "o", "c", "a", "l">>, <<>>}

\* setup_ftp_account: logs and re-raises whatever its calls raise
TargetSetupFtp(r) ==
    /\ pc[r] = "target_ftp"
    /\ \/ /\ Raise(r)
          /\ Log(r, {Call("setup_ftp_account", next_index(r)),
                     Failure("setup_ftp_account", next_index(r))})
          /\ UNCHANGED <<ftp_info, servers>>
       \/ \E host \in HostTexts(next_index(r)) :
            /\ ftp_info' = [ftp_info EXCEPT ![r] =
                  [host |-> host, user |-> UserAt(clock), password |-> ftp_password(r)]]
            /\ servers' = WithFtpAccount(next_index(r), server_id[r], ftp_password(r))
            /\ Goto(r, "target_install")
            /\ Log(r, {Call("setup_ftp_account", next_index(r))})
    /\ UNCHANGED <<gist, nextId, temp_dir, config, state, current_index, source_ftp, target_result,
                   driver, orphans, server_id, attempt, fresh_cookies, transferLocals, writes,
                   before>>

\* the cookie jar get_all_cookies can find after the provisioning
CookieJars == {[BOXTOPLAY_SESSION |-> TokenAt(clock)], EmptyDict}

\* install_modpack, then fresh_cookies = get_all_cookies(driver)
TargetInstall(r) ==
    /\ pc[r] = "target_install"
    /\ \/ /\ Raise(r)
          /\ Log(r, {Call("install_modpack", next_index(r)),
                     Failure("install_modpack", next_index(r))})
          /\ UNCHANGED fresh_cookies
       \/ \E jar \in CookieJars :
            /\ fresh_cookies' = [fresh_cookies EXCEPT ![r] = jar]
            /\ Goto(r, "target_validate")
            /\ Log(r, {Call("install_modpack", next_index(r))})
    /\ UNCHANGED <<world, config, state, current_index, source_ftp, target_result,
                   driver, orphans, server_id, attempt, ftp_info, transferLocals, writes,
                   before>>

\* the checks of lines 995-1005 on the harvested id, host and user
HarvestAccepted(sid, info) ==
    /\ Truthy(sid) /\ IsDigit(Str(sid))
    /\ Truthy(info.host) /\ Len(info.host) >= MinHostLen
    /\ Truthy(info.user) /\ Len(info.user) >= MinUserLen

\* lines 1022-1028
TargetResult(sid, info, password, jar) ==
    [server_id |-> Str(sid), ftp_host |-> info.host, ftp_user |-> info.user,
     ftp_password |-> password, cookies |-> jar]

\* the four predicates of lines 995-1016
HarvestPredicates == {"server_id", "ftp_host", "ftp_user", "cookies"}

\* every predicate the harvested data fails
HarvestFailures(sid, info, jar) ==
    (IF Truthy(sid) /\ IsDigit(Str(sid)) THEN {} ELSE {"server_id"})
    \cup (IF Truthy(info.host) /\ Len(info.host) >= MinHostLen THEN {} ELSE {"ftp_host"})
    \cup (IF Truthy(info.user) /\ Len(info.user) >= MinUserLen THEN {} ELSE {"ftp_user"})
    \cup (IF HasSession(jar) THEN {} ELSE {"cookies"})

\* what the ValueError raised by lines 995-1020 names: the first check that
\* fails, in the order of the source, or the global validation
HarvestReported(sid, info, jar) ==
    IF ~(Truthy(sid) /\ IsDigit(Str(sid))) THEN {"server_id"}
    ELSE IF ~(Truthy(info.host) /\ Len(info.host) >= MinHostLen) THEN {"ftp_host"}
    ELSE IF ~(Truthy(info.user) /\ Len(info.user) >= MinUserLen) THEN {"ftp_user"}
    ELSE IF ~HasSession(jar) THEN {"cookies"}
    ELSE IF ~validate_server_info(sid, info.host, info.user)
         THEN {"validate_server_info"}
    ELSE {}

Invalid(predicate, slot) == <<"invalid " \o predicate, slot>>

\* validation of the harvested data, with one retry of the cookie harvest
\* when the first three checks passed, then the result dict; the function's
\* locals end with its return
TargetValidate(r) ==
    /\ pc[r] = "target_validate"
    /\ \E retry \in CookieJars :
         LET retried == /\ HarvestAccepted(server_id[r], ftp_info[r])
                        /\ ~HasSession(fresh_cookies[r])
             jar == IF retried THEN retry ELSE fresh_cookies[r]
             reported == HarvestReported(server_id[r], ftp_info[r], jar)
         IN IF reported = {}
            THEN /\ target_result' = [target_result EXCEPT ![r] =
                       TargetResult(server_id[r], ftp_info[r], ftp_password(r), jar)]
                 /\ Goto(r, "close_driver_3")
                 /\ UNCHANGED calls
                 /\ server_id' = [server_id EXCEPT ![r] = None]
                 /\ ftp_info' = [ftp_info EXCEPT ![r] = NoneDict]
                 /\ fresh_cookies' = [fresh_cookies EXCEPT ![r] = EmptyDict]
            ELSE /\ Raise(r)
                 /\ Log(r, {Failure("validation", next_index(r))}
                           \cup {Invalid(p, next_index(r)) : p \in reported})
                 /\ fresh_cookies' = [fresh_cookies EXCEPT ![r] = jar]
                 /\ UNCHANGED <<target_result, server_id, ftp_info>>
    /\ attempt' = [attempt EXCEPT ![r] = 0]
    /\ UNCHANGED <<world, config, state, current_index, source_ftp, driver, orphans,
                   transferLocals, writes, before>>

(***************************************************************************)
(* Step 4: transfer_world_data(source_ftp, target_ftp).                    *)
(***************************************************************************)
\* main lines 1129-1133
target_ftp(r) ==
    [host |-> target_result[r].ftp_host, user |-> target_result[r].ftp_user,
     password |-> ftp_password(r)]

\* cleanup_temp_dir(): shutil.rmtree removes TEMP_DIR when it exists, or
\* raises and the exception is logged as a warning and swallowed
CleanupEvents(removed) ==
    IF temp_dir /\ ~removed THEN {Warning("cleanup_temp_dir")} ELSE {}

\* mutant: only a missing source is taken as nothing to migrate
NoSourceOnlyWhenAbsent(src) == ~TruthyDict(src)

\* line 831: nothing to migrate
NoSource(src) == ~TruthyDict(src) \/ ~Truthy(Get(src, "host", None))

TransferSkip(r) ==
    /\ pc[r] = "transfer"
    /\ NoSource(source_ftp[r])
    /\ transfer_ret' = [transfer_ret EXCEPT ![r] = "True"]
    /\ Goto(r, "create_driver_5")
    /\ UNCHANGED <<world, config, state, current_index, source_ftp, target_result,
                   driver, orphans, accountLocals, download_ok, upload_ok, history>>

\* ensure_temp_dir(), outside the function's try block
TransferEnsureTempDir(r) ==
    /\ pc[r] = "transfer"
    /\ ~NoSource(source_ftp[r])
    /\ \E made \in BOOLEAN :
         IF made
         THEN /\ temp_dir' = TRUE
              /\ Goto(r, "transfer_download")
              /\ UNCHANGED calls
         ELSE /\ Raise(r)
              /\ Log(r, {Failure("ensure_temp_dir", NoSlot)})
              /\ UNCHANGED temp_dir
    /\ UNCHANGED <<gist, servers, nextId, config, state, current_index, source_ftp,
                   target_result, driver, orphans, accountLocals, transferLocals, writes,
                   before>>

\* mutant: a failed download aborts the run
DownloadFailedAborts(r) ==
    /\ transfer_ret' = [transfer_ret EXCEPT ![r] = "False"]
    /\ Raise(r)

\* lines 849-851: the download failed, "le monde sera vierge", return True
DownloadFailed(r) ==
    /\ transfer_ret' = [transfer_ret EXCEPT ![r] = "True"]
    /\ Goto(r, "create_driver_5")

\* lftp_download: creates the local directory and runs lftp; when creating
\* the directory raises, the except clause cleans up and returns False
TransferDownload(r) ==
    /\ pc[r] = "transfer_download"
    /\ \E outcome \in {"ok", "failed", "raised"} :
         CASE outcome = "ok" ->
                /\ temp_dir' = TRUE
                /\ download_ok' = [download_ok EXCEPT ![r] = "True"]
                /\ Log(r, {Call("lftp_download", current_index[r])})
                /\ Goto(r, "transfer_upload")
                /\ UNCHANGED transfer_ret
           [] outcome = "failed" ->
                /\ temp_dir' = TRUE
                /\ download_ok' = [download_ok EXCEPT ![r] = "False"]
                /\ Log(r, {Call("lftp_download", current_index[r]),
                           Failure("lftp_download", current_index[r])})
                /\ DownloadFailed(r)
           [] outcome = "raised" ->
                /\ \E removed \in BOOLEAN :
                     /\ temp_dir' = (temp_dir /\ ~removed)
                     /\ Log(r, {Failure("lftp_download", current_index[r])}
                               \cup CleanupEvents(removed))
                /\ transfer_ret' = [transfer_ret EXCEPT ![r] = "False"]
                /\ Goto(r, "create_driver_5")
                /\ UNCHANGED download_ok
    /\ UNCHANGED <<gist, servers, nextId, config, state, current_index, source_ftp,
                   target_result, driver, orphans, accountLocals, upload_ok, writes, before>>

\* mutant: lftp_upload runs lftp without looking at the local path
LocalPathAssumed == TRUE

\* lines 784-786: os.path.exists(local_path), a path below TEMP_DIR
LocalPathExists == temp_dir

\* lftp_upload, then cleanup_temp_dir() when it succeeded; the value
\* transfer_world_data returns is dropped by main (line 1135)
TransferUpload(r) ==
    /\ pc[r] = "transfer_upload"
    /\ \E ok \in BOOLEAN :
         IF LocalPathExists /\ ok
         THEN /\ upload_ok' = [upload_ok EXCEPT ![r] = "True"]
              /\ \E removed \in BOOLEAN :
                   /\ temp_dir' = (temp_dir /\ ~removed)
                   /\ Log(r, {Call("lftp_upload", next_index(r))}
                             \cup CleanupEvents(removed))
              /\ transfer_ret' = [transfer_ret EXCEPT ![r] = "True"]
         ELSE /\ upload_ok' = [upload_ok EXCEPT ![r] = "False"]
              /\ Log(r, (IF LocalPathExists THEN {Call("lftp_upload", next_index(r))}
                         ELSE {})
                        \cup {Failure("lftp_upload", next_index(r))})
              /\ transfer_ret' = [transfer_ret EXCEPT ![r] = "False"]
              /\ UNCHANGED temp_dir
    /\ Goto(r, "create_driver_5")
    /\ UNCHANGED <<gist, servers, nextId, config, state, current_index, source_ftp,
                   target_result, driver, orphans, accountLocals, download_ok, writes, before>>

(***************************************************************************)
(* Step 5: finalize_server.                                                *)
(***************************************************************************)
\* target_account_updated = {**target_account, **target_result}
target_account_updated(r) ==
    [k \in DOMAIN target_account(r) \cup DOMAIN target_result[r] |->
        IF k \in DOMAIN target_result[r] THEN target_result[r][k]
        ELSE target_account(r)[k]]

\* login_with_cookie with the fresh cookie; nothing is started when it fails
FinalizeLogin(r) ==
    /\ pc[r] = "finalize_login"
    /\ \E cookie_ok \in BOOLEAN :
         LET cookie == StoredCookie(target_account_updated(r)) IN
           IF Truthy(cookie) /\ cookie_ok
           THEN /\ Log(r, {Call("login_with_cookie", next_index(r))})
                /\ Goto(r, "finalize_start")
           ELSE /\ Log(r, (IF Truthy(cookie)
                             THEN {Call("login_with_cookie", next_index(r))} ELSE {})
                          \cup {Failure("finalize_login", next_index(r))})
                /\ Goto(r, "close_driver_5")
    /\ UNCHANGED <<world, config, state, current_index, source_ftp, target_result,
                   driver, orphans, accountLocals, transferLocals, writes, before>>

\* start_server(driver, server_id), then logout
FinalizeStart(r) ==
    /\ pc[r] = "finalize_start"
    /\ \E o \in DriverOutcomes :
         /\ servers' = IF o[1]
                       THEN WithStatus(next_index(r), target_result[r].server_id,
                                       "running")
                       ELSE servers
         /\ IF o[2]
            THEN /\ Raise(r)
                 /\ Log(r, {Call("start_server", next_index(r)),
                            Failure("start_server", next_index(r))})
            ELSE /\ Goto(r, "close_driver_5")
                 /\ Log(r, {Call("start_server", next_index(r)),
                            Call("logout", next_index(r))})
    /\ UNCHANGED <<gist, nextId, temp_dir, config, state, current_index, source_ftp,
                   target_result, driver, orphans, accountLocals, transferLocals, writes,
                   before>>

(***************************************************************************)
(* Step 6: the commit.                                                     *)
(***************************************************************************)
\* the checks of lines 1158-1165
PreSaveOk(result) ==
    /\ Truthy(Get(result, "server_id", None))
    /\ Truthy(Get(result, "ftp_host", None))
    /\ Truthy(Get(result, "ftp_user", None))
    /\ HasSession(Get(result, "cookies", EmptyDict))

\* mutant: current_server_id is not updated at the commit
NewStateKeepsCurrentId(st, idx, result) ==
    [st EXCEPT !.active_account_index = idx,
               !.accounts[idx].cookies = result.cookies,
               !.accounts[idx].ftp_host = result.ftp_host,
               !.accounts[idx].ftp_user = result.ftp_user,
               !.accounts[idx].server_id = Str(result.server_id)]

\* mutant: the fresh cookies are stored on both accounts
NewStateCookiesOnBoth(st, idx, result) ==
    [st EXCEPT !.active_account_index = idx,
               !.current_server_id = Str(result.server_id),
               !.accounts[idx].cookies = result.cookies,
               !.accounts[1 - idx].cookies = result.cookies,
               !.accounts[idx].ftp_host = result.ftp_host,
               !.accounts[idx].ftp_user = result.ftp_user,
               !.accounts[idx].server_id = Str(result.server_id)]

\* mutant: active_account_index is not flipped
NewStateNoFlip(st, idx, result) ==
    [st EXCEPT !.current_server_id = Str(result.server_id),
               !.accounts[idx].cookies = result.cookies,
               !.accounts[idx].ftp_host = result.ftp_host,
               !.accounts[idx].ftp_user = result.ftp_user,
               !.accounts[idx].server_id = Str(result.server_id)]

\* mutant: the outgoing slot's server_id is cleared at the commit
NewStateClearsOutgoing(st, idx, result) ==
    [st EXCEPT !.active_account_index = idx,
               !.current_server_id = Str(result.server_id),
               !.accounts[idx].cookies = result.cookies,
               !.accounts[idx].ftp_host = result.ftp_host,
               !.accounts[idx].ftp_user = result.ftp_user,
               !.accounts[idx].server_id = Str(result.server_id),
               !.accounts[1 - idx].server_id = None]

\* mutant: the password of the result is stored in the document as well
NewStateStoresPassword(st, idx, result) ==
    [st EXCEPT !.active_account_index = idx,
               !.current_server_id = Str(result.server_id),
               !.ftp_password = result.ftp_password,
               !.accounts[idx].cookies = result.cookies,
               !.accounts[idx].ftp_host = result.ftp_host,
               !.accounts[idx].ftp_user = result.ftp_user,
               !.accounts[idx].server_id = Str(result.server_id)]

\* lines 1168-1175: the document main hands to update_state
NewState(st, idx, result) ==
    [st EXCEPT !.active_account_index = idx,
               !.current_server_id = Str(result.server_id),
               !.accounts[idx].cookies = result.cookies,
               !.accounts[idx].ftp_host = result.ftp_host,
               !.accounts[idx].ftp_user = result.ftp_user,
               !.accounts[idx].server_id = Str(result.server_id)]

\* mutant: the document is replaced although the request is reported failed
PersistedEvenIfRejected(old, new, patched) == new

\* mutant: the store keeps the document of a writer that flipped the index
\* before this one, and still answers that the request succeeded
PersistedFirstWriterWins(old, new, patched) ==
    IF patched /\ old.active_account_index # new.active_account_index THEN new
    ELSE old

\* lines 300-306: the store holds the new document exactly when the PATCH
\* was accepted; otherwise raise_for_status raises and the old one stays
Persisted(old, new, patched) == IF patched THEN new ELSE old

StateError(error) == <<"state: " \o error, NoSlot>>

\* what validate_state_before_save logs: nothing when the structure check
\* returns early, else each error of the list
LoggedStateErrors(st, target_index) ==
    IF DOMAIN st.accounts # {0, 1} THEN {}
    ELSE {StateError(e) : e \in validate_state_errors(st, target_index)}

\* update_state(new_state, target_index): the validation, then the PATCH
update_state(r, new_state, target_index) ==
    IF ~validate_state_before_save(new_state, target_index)
    THEN /\ Raise(r)
         /\ Log(r, {Failure("validate_state_before_save", NoSlot)}
                   \cup LoggedStateErrors(new_state, target_index))
         /\ UNCHANGED <<gist, writes>>
    ELSE /\ writes' = [writes EXCEPT ![r] = @ + 1]
         /\ \E patched \in BOOLEAN :
              /\ gist' = Persisted(gist, new_state, patched)
              /\ IF patched
                 THEN /\ Return(r, 0)
                      /\ Log(r, {Call("update_state", NoSlot)})
                 ELSE /\ Raise(r)
                      /\ Log(r, {Call("update_state", NoSlot),
                                 Failure("update_state", NoSlot)})

SaveState(r) ==
    /\ pc[r] = "save"
    /\ IF ~PreSaveOk(target_result[r])
       THEN /\ Raise(r)
            /\ Log(r, {Failure("pre_save_check", NoSlot)})
            /\ UNCHANGED <<gist, state, writes>>
       ELSE LET new_state == NewState(state[r], next_index(r), target_result[r]) IN
            /\ state' = [state EXCEPT ![r] = new_state]
            /\ update_state(r, new_state, next_index(r))
    /\ UNCHANGED <<servers, nextId, temp_dir, config, current_index, source_ftp,
                   target_result, driver, orphans, accountLocals, transferLocals, before>>

\* update_state called on its own with a document and a target index
UpdateStateCall(r) ==
    /\ pc[r] = "update_state"
    /\ update_state(r, state[r], next_index(r))
    /\ UNCHANGED <<servers, nextId, temp_dir, config, state, current_index,
                   source_ftp, target_result, driver, orphans, accountLocals, transferLocals,
                   before>>

\* mutant: the finally clause only closes the browser
FinallyKeepsScratch(r) ==
    /\ pc[r] = "finally"
    /\ \E quit \in BOOLEAN :
         /\ orphans' = [orphans EXCEPT ![r] = Orphaned(r, driver[r], quit)]
         /\ Log(r, CloseEvents(driver[r], quit))
    /\ driver' = [driver EXCEPT ![r] = FALSE]
    /\ pc' = [pc EXCEPT ![r] = "done"]
    /\ UNCHANGED <<world, config, mainLocals, accountLocals, transferLocals, writes,
                   before>>

\* the finally clause: close_driver if a driver is held, cleanup_temp_dir
Finally(r) ==
    /\ pc[r] = "finally"
    /\ \E quit \in BOOLEAN, removed \in BOOLEAN :
         /\ orphans' = [orphans EXCEPT ![r] = Orphaned(r, driver[r], quit)]
         /\ temp_dir' = (temp_dir /\ ~removed)
         /\ Log(r, CloseEvents(driver[r], quit) \cup CleanupEvents(removed))
    /\ driver' = [driver EXCEPT ![r] = FALSE]
    /\ pc' = [pc EXCEPT ![r] = "done"]
    /\ UNCHANGED <<gist, servers, nextId, config, mainLocals, accountLocals,
                   transferLocals, writes, before>>

(***************************************************************************)
(* One run at a time, MaxRuns runs one after the other.                    *)
(***************************************************************************)
Step(r) ==
    \/ RunStart(r)
    \/ GetState(r)
    \/ CreateDriver(r)
    \/ CloseDriver(r)
    \/ ActiveSkip(r)
    \/ ActiveLogin(r)
    \/ ActiveServerId(r)
    \/ ActiveChangeDns(r)
    \/ ActiveStop(r)
    \/ ActiveFtpInfo(r)
    \/ TargetLogin(r)
    \/ TargetBuy(r)
    \/ TargetPoll(r)
    \/ TargetPollExhausted(r)
    \/ TargetChangeDns(r)
    \/ TargetSetupFtp(r)
    \/ TargetInstall(r)
    \/ TargetValidate(r)
    \/ TransferSkip(r)
    \/ TransferEnsureTempDir(r)
    \/ TransferDownload(r)
    \/ TransferUpload(r)
    \/ FinalizeLogin(r)
    \/ FinalizeStart(r)
    \/ SaveState(r)
    \/ Finally(r)

Next == \E r \in SeqProcs : Step(r)

Spec == Init /\ [][Next]_vars

(***************************************************************************)
(* Two invocations of the worker at the same time (two scheduled jobs, or  *)
(* a manual start during a scheduled one): their steps interleave.         *)
(***************************************************************************)
InitConcurrent ==
    /\ Init
    /\ gist = SeedActive(0)
    /\ FTP_PASSWORD = EnvSecret

\* r's step meets no failure of an external call
Cooperates(r) == Failures(r)' = Failures(r) /\ Warnings(r)' = Warnings(r)

\* where main() is between two of its steps
Boundary ==
    {"idle", "get_state", "create_driver_2", "create_driver_3", "transfer",
     "create_driver_5", "save", "finally", "done"}

\* the document is only touched by get_state and update_state, so the two
\* runs are interleaved step of main() by step of main(); to keep the
\* interleavings within reach the external calls succeed while the two are
\* at work (runs that meet failures are the subject of Spec), so that
\* ActiveSkip, TransferSkip and TargetPollExhausted do not occur here
NextConcurrent ==
    \E r \in Procs :
      /\ \A o \in Procs \ {r} : pc[o] \in Boundary
      /\ Step(r)
      /\ Cooperates(r)

SpecConcurrent == InitConcurrent /\ [][NextConcurrent]_vars

(***************************************************************************)
(* transfer_world_data on its own, applied to every source and target of   *)
(* small sets: an absent source, an empty one, one without host, one with  *)
(* an empty host, and one with a host.                                     *)
(***************************************************************************)
TransferSources ==
    {NoneDict, EmptyDict,
     [host |-> None, user |-> None, password |-> GistSecret],
     [host |-> <<>>, user |-> UserAt(FirstClock - 1), password |-> GistSecret],
     [host |-> HostOf(SeedServerId), user |-> UserAt(FirstClock - 1),
      password |-> GistSecret]}

TransferTargets ==
    {TargetResult(ToDigits(id), [host |-> HostOf(id), user |-> UserAt(FirstClock)],
                  GistSecret, [BOXTOPLAY_SESSION |-> TokenAt(FirstClock)]) :
       id \in {FirstNewId, FirstNewId + 1}}

InitTransfer ==
    /\ gist \in {SeedFirst, SeedActive(0), SeedActive(1), SeedNoFtp}
    /\ servers = SeedServers(gist)
    /\ nextId = FirstNewId + 2
    /\ temp_dir = FALSE
    /\ FTP_PASSWORD \in {<<>>, EnvSecret}
    /\ clock = FirstClock
    /\ runs = 1
    /\ pc = [r \in Procs |-> IF r \in SeqProcs THEN "transfer" ELSE "idle"]
    /\ state = [r \in Procs |-> IF r \in SeqProcs THEN gist ELSE NoneDict]
    /\ current_index = [r \in Procs |-> IF r \in SeqProcs THEN gist.active_account_index
                                        ELSE 0]
    /\ source_ftp \in [Procs -> TransferSources]
    /\ \A r \in Procs \ SeqProcs : source_ftp[r] = NoneDict
    /\ target_result \in [Procs -> TransferTargets \cup {NoneDict}]
    /\ \A r \in Procs : target_result[r] = NoneDict <=> r \notin SeqProcs
    /\ driver = [r \in Procs |-> FALSE]
    /\ orphans = [r \in Procs |-> FALSE]
    /\ exit_code = [r \in Procs |-> Unset]
    /\ server_id = [r \in Procs |-> None]
    /\ attempt = [r \in Procs |-> 0]
    /\ ftp_info = [r \in Procs |-> NoneDict]
    /\ fresh_cookies = [r \in Procs |-> EmptyDict]
    /\ download_ok = [r \in Procs |-> Unset]
    /\ upload_ok = [r \in Procs |-> Unset]
    /\ transfer_ret = [r \in Procs |-> Unset]
    /\ calls = [r \in Procs |-> {}]
    /\ writes = [r \in Procs |-> 0]
    /\ before = [r \in Procs |-> gist]

NextTransfer ==
    \E r \in SeqProcs :
      \/ TransferSkip(r)
      \/ TransferEnsureTempDir(r)
      \/ TransferDownload(r)
      \/ TransferUpload(r)

SpecTransfer == InitTransfer /\ [][NextTransfer]_vars

(***************************************************************************)
(* Two invocations from the transfer stage on, step by step: both loaded   *)
(* the document of a live system, stopped the outgoing server and rented a *)
(* server on the incoming account, and both use the one TEMP_DIR.          *)
(***************************************************************************)
InitScratch ==
    /\ gist = SeedActive(0)
    /\ servers = [i \in Slots |->
                    IF i = 0 THEN [id |-> SeedServerId, status |-> "stopped", dns |-> <<>>,
                                   ftp_pass |-> None]
                    ELSE [id |-> FirstNewId + 1, status |-> "created", dns |-> DnsLabel,
                          ftp_pass |-> EnvSecret]]
    /\ nextId = FirstNewId + 2
    /\ temp_dir = FALSE
    /\ FTP_PASSWORD = EnvSecret
    /\ clock = FirstClock + 1
    /\ runs = MaxRuns
    /\ pc = [r \in Procs |-> "transfer"]
    /\ state = [r \in Procs |-> gist]
    /\ current_index = [r \in Procs |-> gist.active_account_index]
    /\ source_ftp = [r \in Procs |-> ActiveFtpInfoOf(gist.accounts[0])]
    /\ target_result \in [Procs -> TransferTargets]
    /\ driver = [r \in Procs |-> FALSE]
    /\ orphans = [r \in Procs |-> FALSE]
    /\ exit_code = [r \in Procs |-> Unset]
    /\ server_id = [r \in Procs |-> None]
    /\ attempt = [r \in Procs |-> 0]
    /\ ftp_info = [r \in Procs |-> NoneDict]
    /\ fresh_cookies = [r \in Procs |-> EmptyDict]
    /\ download_ok = [r \in Procs |-> Unset]
    /\ upload_ok = [r \in Procs |-> Unset]
    /\ transfer_ret = [r \in Procs |-> Unset]
    /\ calls = [r \in Procs |-> {}]
    /\ writes = [r \in Procs |-> 0]
    /\ before = [r \in Procs |-> gist]

\* the steps of the two runs in any order, up to the exit of both
NextScratch ==
    \E r \in Procs :
      /\ pc[r] # "done"
      /\ Step(r)

SpecScratch == InitScratch /\ [][NextScratch]_vars

(***************************************************************************)
(* update_state on its own, applied to documents whose target account and  *)
(* current_server_id are drawn from small sets, with two accounts or with  *)
(* a third one.                                                            *)
(***************************************************************************)
DocServerIds == {None, <<>>, ToDigits(FirstNewId), Lstrip(GarbageText, "#")}

DocCurrentIds ==
    {None, ToDigits(FirstNewId), ToDigits(SeedServerId), Lstrip(GarbageText, "#")}

DocHosts == {None, <<>>, HostOf(FirstNewId)}

DocUsers == {None, <<"a", "b">>, UserAt(FirstClock)}

\* the number of accounts of the document
DocSizes == {Cardinality(Slots), Cardinality(Slots) + 1}

DocCookies == {EmptyDict, [BOXTOPLAY_SESSION |-> TokenAt(FirstClock)]}

InitValidate ==
    /\ gist = SeedFirst
    /\ servers = SeedServers(gist)
    /\ nextId = FirstNewId + 1
    /\ temp_dir = FALSE
    /\ FTP_PASSWORD = EnvSecret
    /\ clock = FirstClock
    /\ runs = 1
    /\ pc = [r \in Procs |-> IF r \in SeqProcs THEN "update_state" ELSE "idle"]
    /\ \E t \in Slots, cur \in DocCurrentIds, sid \in DocServerIds, host \in DocHosts,
          user \in DocUsers, jar \in DocCookies, size \in DocSizes :
         /\ state = [r \in Procs |->
                       IF r \in SeqProcs
                       THEN [SeedFirst EXCEPT
                               !.active_account_index = t,
                               !.current_server_id = cur,
                               !.accounts = [i \in 0 .. (size - 1) |->
                                   IF i = t THEN [DormantAccount(i) EXCEPT
                                                    !.server_id = sid,
                                                    !.ftp_host = host,
                                                    !.ftp_user = user,
                                                    !.cookies = jar]
                                   ELSE DormantAccount(i % Cardinality(Slots))]]
                       ELSE NoneDict]
         /\ current_index = [r \in Procs |-> IF r \in SeqProcs THEN 1 - t ELSE 0]
    /\ source_ftp = [r \in Procs |-> NoneDict]
    /\ target_result = [r \in Procs |-> NoneDict]
    /\ driver = [r \in Procs |-> FALSE]
    /\ orphans = [r \in Procs |-> FALSE]
    /\ exit_code = [r \in Procs |-> Unset]
    /\ server_id = [r \in Procs |-> None]
    /\ attempt = [r \in Procs |-> 0]
    /\ ftp_info = [r \in Procs |-> NoneDict]
    /\ fresh_cookies = [r \in Procs |-> EmptyDict]
    /\ download_ok = [r \in Procs |-> Unset]
    /\ upload_ok = [r \in Procs |-> Unset]
    /\ transfer_ret = [r \in Procs |-> Unset]
    /\ calls = [r \in Procs |-> {}]
    /\ writes = [r \in Procs |-> 0]
    /\ before = [r \in Procs |-> gist]

NextValidate == \E r \in SeqProcs : UpdateStateCall(r) \/ Finally(r)

SpecValidate == InitValidate /\ [][NextValidate]_vars

(***************************************************************************)
(* Vocabulary of the properties.                                           *)
(***************************************************************************)
Done(r) == pc[r] = "done"

Fatal(r) == Done(r) /\ exit_code[r] = 1

Success(r) == Done(r) /\ exit_code[r] = 0

\* a server that was provisioned and has not been stopped
Live(slot) == servers[slot].id # 0 /\ servers[slot].status # "stopped"

SlotsWithResourceId(doc) == {i \in Slots : Truthy(doc.accounts[i].server_id)}

(***************************************************************************)
(* C1: a run that ends FATAL leaves the persisted document as it was when  *)
(* the run began; a run sends at most one write to the state store, and    *)
(* nothing follows the write but the finally clause.                       *)
(***************************************************************************)
C1_FatalLeavesDocumentUnchanged ==
    \A r \in Procs :
      /\ writes[r] <= 1
      /\ writes[r] = 1 => pc[r] \in {"finally", "done"}
      /\ (pc[r] \in {"finally", "done"} /\ exit_code[r] = 1) => gist = before[r]

\* a run ended FATAL on a rejected write after it had started the new server
C1_Witness ==
    \E r \in Procs :
      /\ Fatal(r)
      /\ Failure("update_state", NoSlot) \in calls[r]
      /\ servers[next_index(r)].status = "running"

(***************************************************************************)
(* C2 (as claimed): once the upload to the incoming slot failed, the       *)
(* incoming server is never started, the document is never written and the *)
(* run returns 1.                                                          *)
(***************************************************************************)
C2_PushFailureIsFatal ==
    \A r \in Procs :
      Failure("lftp_upload", next_index(r)) \in calls[r] =>
        /\ Call("start_server", next_index(r)) \notin calls[r]
        /\ writes[r] = 0
        /\ Done(r) => exit_code[r] = 1

(***************************************************************************)
(* C3 (as claimed): no run ends with the outgoing slot's server stopped    *)
(* while the incoming slot has no server that was provisioned and started. *)
(***************************************************************************)
C3_NeverBothInactive ==
    \A r \in Procs :
      Done(r) =>
        ~ /\ Call("stop_server", current_index[r]) \in calls[r]
          /\ servers[current_index[r]].status = "stopped"
          /\ servers[next_index(r)].status # "running"

(***************************************************************************)
(* C4 (as claimed, for the case it names): when a run that reached the     *)
(* state write ends, whether the write was accepted or not, the slot named *)
(* by the persisted active_account_index owns the live server and the      *)
(* persisted current_server_id is that server's id.                        *)
(***************************************************************************)
C4_PersistedAgreesWithReality ==
    \A r \in Procs :
      (Done(r) /\ writes[r] = 1) =>
        LET a == gist.active_account_index IN
          /\ Live(a)
          /\ gist.current_server_id = ToDigits(servers[a].id)

(***************************************************************************)
(* C5: after a successful run that began with active_account_index = i the *)
(* document has active_account_index = 1 - i, current_server_id is the id  *)
(* harvested in this run (the id of the server the purchase created, when  *)
(* it created one), and slot 1 - i holds the server id, FTP host, FTP user *)
(* and cookies harvested in this run, all of them populated.               *)
(***************************************************************************)
C5_SlotFlip ==
    \A r \in Procs :
      Success(r) =>
        LET i == before[r].active_account_index
            acc == gist.accounts[1 - i]
            res == target_result[r]
        IN /\ gist.active_account_index = 1 - i
           /\ gist.current_server_id = res.server_id
           /\ Call("server created", 1 - i) \in calls[r]
                => gist.current_server_id = ToDigits(servers[1 - i].id)
           /\ acc.server_id = res.server_id /\ Truthy(acc.server_id)
           /\ acc.ftp_host = res.ftp_host /\ Truthy(acc.ftp_host)
           /\ acc.ftp_user = res.ftp_user /\ acc.ftp_user = UserAt(clock)
           /\ acc.cookies = res.cookies
           /\ StoredCookie(acc) = TokenAt(clock)

\* a successful second rotation, from slot 1 back to slot 0
C5_Witness ==
    \E r \in Procs :
      /\ Success(r)
      /\ before[r].active_account_index = 1
      /\ gist.active_account_index = 0
      /\ Call("server created", 0) \in calls[r]
      /\ Truthy(before[r].accounts[0].server_id)

(***************************************************************************)
(* C6: in the persisted document, the active slot's server_id equals       *)
(* current_server_id whenever both are non-null.                           *)
(***************************************************************************)
C6_ActiveSlotMatchesCurrent ==
    LET sid == gist.accounts[gist.active_account_index].server_id IN
      (Truthy(gist.current_server_id) /\ Truthy(sid)) => sid = gist.current_server_id

\* the document committed by a second rotation, both ids non-null
C6_Witness ==
    \E r \in Procs :
      /\ Success(r)
      /\ Truthy(before[r].current_server_id)
      /\ before[r].current_server_id # ToDigits(SeedServerId)
      /\ Truthy(gist.current_server_id)
      /\ Truthy(gist.accounts[gist.active_account_index].server_id)
      /\ gist.current_server_id # before[r].current_server_id

(***************************************************************************)
(* C7 (as claimed): right after a successful rotation at most one slot of  *)
(* the document has a non-null server_id.                                  *)
(***************************************************************************)
C7_AtMostOneSlotHasResourceId ==
    \A r \in Procs :
      Success(r) => Cardinality(SlotsWithResourceId(gist)) <= 1

(***************************************************************************)
(* C7 (amended): right after a successful rotation the incoming slot has a *)
(* non-null server_id and the outgoing slot keeps the server_id it had in  *)
(* the loaded document; so at most one slot has a non-null server_id       *)
(* exactly when the outgoing slot's server_id was null when loaded.        *)
(***************************************************************************)
C7_OutgoingResourceIdRetained ==
    \A r \in Procs :
      Success(r) =>
        LET out == current_index[r] IN
          /\ Truthy(gist.accounts[next_index(r)].server_id)
          /\ gist.accounts[out].server_id = before[r].accounts[out].server_id
          /\ (Cardinality(SlotsWithResourceId(gist)) <= 1)
               <=> ~Truthy(before[r].accounts[out].server_id)

\* after a second rotation both slots carry a server_id
C7_Witness ==
    \E r \in Procs :
      /\ Success(r)
      /\ before[r].current_server_id # ToDigits(SeedServerId)
      /\ Truthy(before[r].current_server_id)
      /\ Cardinality(SlotsWithResourceId(gist)) = Cardinality(Slots)

(***************************************************************************)
(* C8 (as claimed): a failure of the Start step (no browser for step 5,    *)
(* the login with the fresh cookie fails, or start_server raises) does not *)
(* prevent the commit: the run still sends the document to the store.      *)
(***************************************************************************)
StartFailed(r) ==
    calls[r] \cap {Failure("create_driver_5", NoSlot),
                   Failure("finalize_login", next_index(r)),
                   Failure("start_server", next_index(r))} # {}

C8_StartFailureStillCommits ==
    \A r \in Procs : (Done(r) /\ StartFailed(r)) => writes[r] = 1

(***************************************************************************)
(* C9: a failed download from the outgoing slot does not abort the run: it *)
(* goes on to the start and the commit, and unless one of those raises it  *)
(* ends with exit code 0 and the flipped document persisted.               *)
(***************************************************************************)
StartOrCommitRaised(r) ==
    calls[r] \cap {Failure("create_driver_5", NoSlot),
                   Failure("start_server", next_index(r)),
                   Failure("pre_save_check", NoSlot),
                   Failure("validate_state_before_save", NoSlot),
                   Failure("update_state", NoSlot)} # {}

C9_PullFailureNotFatal ==
    \A r \in Procs :
      Failure("lftp_download", current_index[r]) \in calls[r] =>
        /\ pc[r] \in {"finally", "done"} =>
             \/ StartOrCommitRaised(r)
             \/ /\ exit_code[r] = 0
                /\ writes[r] = 1
                /\ gist = state[r]
                /\ gist.active_account_index = next_index(r)
        /\ Failure("lftp_upload", next_index(r)) \notin calls[r]

\* lftp ran and failed on the download; the server was started, the run won
C9_Witness ==
    \E r \in Procs :
      /\ Success(r)
      /\ download_ok[r] = "False"
      /\ Call("start_server", next_index(r)) \in calls[r]

(***************************************************************************)
(* C10: when both logins against the outgoing slot fail, no stop and no    *)
(* DNS change is issued against it, the transfer source is None and lftp   *)
(* is never run; if nothing else fails the run ends with exit code 0 and   *)
(* the flipped document persisted.                                         *)
(***************************************************************************)
C10_OutgoingAuthFailure ==
    \A r \in Procs :
      Failure("login", current_index[r]) \in calls[r] =>
        /\ Call("stop_server", current_index[r]) \notin calls[r]
        /\ Call("change_server_dns", current_index[r]) \notin calls[r]
        /\ source_ftp[r] = NoneDict
        /\ Call("lftp_download", current_index[r]) \notin calls[r]
        /\ Call("lftp_upload", next_index(r)) \notin calls[r]
        /\ transfer_ret[r] \in {Unset, "True"}
        /\ (Done(r) /\ Failures(r) = {Failure("login", current_index[r])}) =>
             /\ exit_code[r] = 0
             /\ writes[r] = 1
             /\ gist.active_account_index = next_index(r)

\* such a run, ended with the commit
C10_Witness ==
    \E r \in Procs :
      /\ Success(r)
      /\ Failure("login", current_index[r]) \in calls[r]
      /\ Call("login_with_credentials", current_index[r]) \in calls[r]

(***************************************************************************)
(* C11 (as claimed): whenever the outgoing slot has an ftp_host on file,   *)
(* the source handed to transfer_world_data carries that slot's ftp_host   *)
(* and ftp_user, also when no login against the outgoing slot worked.      *)
(***************************************************************************)
C11_SourceCapturedRegardless ==
    \A r \in Procs :
      (pc[r] = "transfer" /\ Truthy(Get(active_account(r), "ftp_host", None))) =>
        /\ source_ftp[r] # NoneDict
        /\ source_ftp[r].host = active_account(r).ftp_host
        /\ source_ftp[r].user = active_account(r).ftp_user

\* the adapter calls the run issued against a slot
CallsAgainst(r, slot) == {c \in calls[r] : c[2] = slot}

C13_RefusedWhenNotFree ==
    \A r \in Procs :
      (\E offer \in Offers \ {"free"} : Offered(offer, next_index(r)) \in calls[r]) =>
        /\ Call("checkout", next_index(r)) \notin calls[r]
        /\ pc[r] \in {"finally", "done"}
        /\ exit_code[r] = 1
        /\ gist = before[r]

\* transfer_world_data has returned (an exception of ensure_temp_dir
\* leaves it without a return value)
TransferReturned(r) == transfer_ret[r] # Unset

(***************************************************************************)
(* C14: transfer_world_data with a source that is None, empty or without a *)
(* host runs no lftp command, creates no scratch directory and returns     *)
(* True, whatever the target.                                              *)
(***************************************************************************)
C14_NoSourceIsNoOp ==
    \A r \in SeqProcs :
      (pc[r] # "transfer"
         /\ (~TruthyDict(source_ftp[r]) \/ ~Truthy(Get(source_ftp[r], "host", None)))) =>
        /\ transfer_ret[r] = "True"
        /\ ~temp_dir
        /\ calls[r] = {}
        /\ download_ok[r] = Unset /\ upload_ok[r] = Unset
        /\ pc[r] = "create_driver_5"

\* the function returned for a source dict that is there but has no host
C14_Witness ==
    \E r \in SeqProcs :
      /\ TransferReturned(r)
      /\ TruthyDict(source_ftp[r])
      /\ ~Truthy(Get(source_ftp[r], "host", None))
      /\ target_result[r].server_id = ToDigits(FirstNewId + 1)

(***************************************************************************)
(* C15 (as claimed): whenever transfer_world_data has returned, on any     *)
(* path, the scratch directory it created is gone.                         *)
(***************************************************************************)
C15_ScratchRemovedOnReturn ==
    \A r \in SeqProcs : TransferReturned(r) => ~temp_dir

(***************************************************************************)
(* C16 (as claimed): when the download from a source with a host failed,   *)
(* lftp_upload has still been run against the target by the time           *)
(* transfer_world_data returns, and the value returned is the upload's.    *)
(***************************************************************************)
C16_PushFollowsFailedPull ==
    \A r \in SeqProcs :
      (TransferReturned(r) /\ download_ok[r] = "False") =>
        /\ Call("lftp_upload", next_index(r)) \in calls[r]
        /\ upload_ok[r] # Unset
        /\ transfer_ret[r] = upload_ok[r]

(***************************************************************************)
(* C17 (as claimed): a run rejected by the validation of the harvested     *)
(* data reports every predicate the data fails (server id, FTP host, FTP   *)
(* user, session cookie), not only the first one.                          *)
(***************************************************************************)
C17_AllHarvestFailuresReported ==
    \A r \in Procs :
      Failure("validation", next_index(r)) \in calls[r] =>
        {p \in HarvestPredicates : Invalid(p, next_index(r)) \in calls[r]}
          = HarvestFailures(server_id[r], ftp_info[r], fresh_cookies[r])

StateErrorNames ==
    {"active_account_index invalid", "current_server_id invalid", "server_id missing",
     "ftp_host missing", "ftp_user missing", "cookies invalid", "incoherent"}

\* the document-level errors the run logged
ReportedStateErrors(r) == {e \in StateErrorNames : StateError(e) \in calls[r]}

\* update_state has been applied to state[r]
Validated(r) == pc[r] \in {"finally", "done"}

\* the record of the claim: server_id "", ftp_host "", ftp_user "ab"
ShortUserRecord(r) ==
    LET acc == state[r].accounts[next_index(r)] IN
      acc.server_id = <<>> /\ acc.ftp_host = <<>> /\ acc.ftp_user = <<"a", "b">>

(***************************************************************************)
(* C18 (as claimed): validate_state_before_save on a two-slot document     *)
(* whose target account has server_id "", ftp_host "" and ftp_user "ab"    *)
(* reports at least three failures, one of them for the too-short user.    *)
(***************************************************************************)
C18_ThreeFailuresForShortUser ==
    \A r \in SeqProcs :
      (Validated(r) /\ DOMAIN state[r].accounts = Slots /\ ShortUserRecord(r)) =>
        /\ Cardinality(ReportedStateErrors(r)) >= 3
        /\ "ftp_user missing" \in ReportedStateErrors(r)

(***************************************************************************)
(* C18 (amended): on a document with two accounts,                         *)
(* validate_state_before_save reports every document-level                 *)
(* check that fails, not only the first; it requires ftp_user to be        *)
(* non-empty but not to have a minimum length, so for server_id "",        *)
(* ftp_host "" and ftp_user "ab" it reports the id and the host and        *)
(* nothing for the user; a document with any failure is not written.       *)
(***************************************************************************)
C18_EveryFailedDocumentCheckReported ==
    \A r \in SeqProcs :
      (Validated(r) /\ DOMAIN state[r].accounts = Slots) =>
        LET acc == state[r].accounts[next_index(r)]
            cur == state[r].current_server_id
            rep == ReportedStateErrors(r)
        IN /\ "server_id missing" \in rep <=> ~Truthy(acc.server_id)
           /\ "ftp_host missing" \in rep <=> ~Truthy(acc.ftp_host)
           /\ "ftp_user missing" \in rep <=> ~Truthy(acc.ftp_user)
           /\ "cookies invalid" \in rep <=> ~HasSession(acc.cookies)
           /\ "current_server_id invalid" \in rep <=> (Truthy(cur) /\ ~IsDigit(cur))
           /\ "incoherent" \in rep
                <=> (Truthy(cur) /\ Truthy(acc.server_id) /\ cur # acc.server_id)
           /\ ShortUserRecord(r) =>
                rep \cap {"server_id missing", "ftp_host missing", "ftp_user missing"}
                  = {"server_id missing", "ftp_host missing"}
           /\ rep # {} => (writes[r] = 0 /\ gist = before[r] /\ exit_code[r] = 1)

\* the record of the claim, with a session cookie: two failures reported
C18_Witness ==
    \E r \in SeqProcs :
      /\ Validated(r)
      /\ DOMAIN state[r].accounts = Slots
      /\ ShortUserRecord(r)
      /\ HasSession(state[r].accounts[next_index(r)].cookies)
      /\ Cardinality(ReportedStateErrors(r)) = 2

\* the document was written by this run: the PATCH was sent and accepted
Written(r) ==
    /\ Call("update_state", NoSlot) \in calls[r]
    /\ Failure("update_state", NoSlot) \notin calls[r]
    /\ writes[r] = 1
    /\ gist = state[r]

\* the statements of main() in the order of the source
Labels ==
    <<"idle", "get_state", "create_driver_2", "active", "active_server_id",
      "active_dns", "active_stop", "active_ftp_info", "close_driver_2",
      "create_driver_3", "target_login", "target_buy", "target_poll", "target_dns",
      "target_ftp", "target_install", "target_validate", "close_driver_3",
      "transfer", "transfer_download", "transfer_upload", "create_driver_5",
      "finalize_login", "finalize_start", "close_driver_5", "save", "finally",
      "done">>

Rank(label) == CHOOSE i \in 1..Len(Labels) : Labels[i] = label

\* a step of a run in progress moves it forward in main(), the polling loop
\* by one of its PollAttempts iterations
Advances(r) ==
    \/ Rank(pc'[r]) > Rank(pc[r])
    \/ /\ pc[r] = "target_poll" /\ pc'[r] = "target_poll"
       /\ attempt'[r] = attempt[r] + 1
       /\ attempt'[r] <= PollAttempts

(***************************************************************************)
(* C19: every run of main() ends, with exactly one of the exit codes 0 and *)
(* 1: 0 if and only if the document was written in this run, 1 on every    *)
(* other path, missing configuration and failures of external calls        *)
(* included.  A run in progress can always take a step, each step moves it *)
(* forward (no statement is returned to, but for the bounded polling       *)
(* loop), and it stops nowhere but at a return of main().                  *)
(***************************************************************************)
C19_OneTerminalOutcome ==
    /\ [](\A r \in Procs :
            /\ pc[r] \in {"finally", "done"} =>
                 /\ exit_code[r] \in {0, 1}
                 /\ exit_code[r] = 0 <=> Written(r)
            /\ (Failures(r) \ {Failure("login", current_index[r]),
                               Failure("lftp_download", current_index[r]),
                               Failure("lftp_upload", next_index(r)),
                               Failure("finalize_login", next_index(r))} # {})
                 => (pc[r] \in {"finally", "done"} /\ exit_code[r] = 1)
            /\ pc[r] \notin {"idle", "done"} => ENABLED Step(r))
    /\ [][\A r \in Procs : pc[r] \notin {"idle", "done"} => Advances(r)]_<<pc, attempt>>

\* a run that ended with exit code 1 on missing configuration, after a run
\* that had written the document
C19_Witness ==
    \E r \in SeqProcs :
      /\ Fatal(r)
      /\ Failure("config", NoSlot) \in calls[r]
      /\ before[r].current_server_id = ToDigits(FirstNewId)

\* r's PATCH is accepted in this step
Accepted(r) == pc[r] = "save" /\ pc'[r] = "finally" /\ exit_code'[r] = 0

\* w and o ran at the same time from the same loaded document and both
\* returned 0
BothCommitted(w, o) ==
    /\ w # o
    /\ Success(w) /\ Success(o)
    /\ current_index[w] = current_index[o]
    /\ before[w] = before[o]

(***************************************************************************)
(* C20: two runs at the same time can both load the document before either *)
(* writes it; each accepted write replaces the whole document by the       *)
(* writer's own, whatever the store holds by then (no conflict is          *)
(* detected), so after both have committed the document is the later       *)
(* writer's and the server id the earlier writer harvested is nowhere in   *)
(* it.                                                                     *)
(***************************************************************************)
C20_SecondWriterClobbers ==
    /\ [][\A r \in Procs :
            Accepted(r) => /\ gist' = state'[r]
                           /\ gist'.current_server_id = target_result[r].server_id
                           /\ exit_code'[r] = 0]_vars
    /\ [](\A w, o \in Procs :
            (BothCommitted(w, o) /\ gist = state[w]
               /\ target_result[o].server_id # target_result[w].server_id) =>
              /\ gist.current_server_id = target_result[w].server_id
              /\ gist.current_server_id # target_result[o].server_id
              /\ \A i \in Slots :
                   gist.accounts[i].server_id # target_result[o].server_id)
    /\ [](\A w, o \in Procs : BothCommitted(w, o) => gist \in {state[w], state[o]})

\* both runs loaded the same document, harvested different servers and
\* committed; the document holds only one of the two
C20_Witness ==
    \E w, o \in Procs :
      /\ BothCommitted(w, o)
      /\ writes[w] = 1 /\ writes[o] = 1
      /\ target_result[o].server_id # target_result[w].server_id
      /\ state[o].current_server_id = target_result[o].server_id
      /\ gist = state[w]
      /\ gist # state[o]
      /\ \A i \in Slots : gist.accounts[i].server_id # target_result[o].server_id

(***************************************************************************)
(* C21 (as claimed): when a run that passed the configuration check has    *)
(* returned, on whatever path, no browser the run opened is still open and *)
(* the scratch directory does not exist.                                   *)
(***************************************************************************)
C21_NothingLeftOnExit ==
    \A r \in Procs :
      (Done(r) /\ Failure("config", NoSlot) \notin calls[r]) =>
        /\ ~driver[r]
        /\ ~orphans[r]
        /\ ~temp_dir

(***************************************************************************)
(* C21 (amended): when a run that passed the configuration check has       *)
(* returned, on whatever path, main holds no browser: the finally clause   *)
(* called close_driver on the one it held and cleanup_temp_dir.  A browser *)
(* that main obtained is still open only if driver.quit() raised on it,    *)
(* and the scratch directory exists only if its removal raised: both       *)
(* failures are logged as warnings and swallowed.                          *)
(***************************************************************************)
C21_CleanupAttemptedOnExit ==
    \A r \in Procs :
      (Done(r) /\ Failure("config", NoSlot) \notin calls[r]) =>
        /\ ~driver[r]
        /\ orphans[r] => Warning("close_driver") \in calls[r]
        /\ temp_dir => Warning("cleanup_temp_dir") \in calls[r]

\* start_server raised while main held a browser and the failed download had
\* left the scratch directory: the finally clause released both
C21_Witness ==
    \E r \in Procs :
      /\ Fatal(r)
      /\ Failure("start_server", next_index(r)) \in calls[r]
      /\ download_ok[r] = "False"
      /\ Warnings(r) = {}
      /\ ~driver[r] /\ ~orphans[r] /\ ~temp_dir

(***************************************************************************)
(* C22: once step 3 has failed at any point (no browser, both logins       *)
(* against the target account rejected, buy_free_server returned False,    *)
(* the server id never found, the DNS change, setup_ftp_account or         *)
(* install_modpack raised, or the harvested data rejected), the run is     *)
(* over with exit code 1: lftp is never run, transfer_world_data is never  *)
(* entered, start_server is never called and nothing is sent to the state  *)
(* store.                                                                  *)
(***************************************************************************)
C22_ProvisionFailureStopsRun ==
    \A r \in Procs :
      LET t == next_index(r)
          failed == {Failure("create_driver_3", NoSlot), Failure("login", t),
                     Failure("buy_free_server", t), Failure("poll", t),
                     Failure("change_server_dns", t), Failure("setup_ftp_account", t),
                     Failure("install_modpack", t), Failure("validation", t)}
      IN (calls[r] \cap failed # {}) =>
           /\ pc[r] \in {"finally", "done"}
           /\ exit_code[r] = 1
           /\ target_result[r] = NoneDict
           /\ transfer_ret[r] = Unset /\ download_ok[r] = Unset /\ upload_ok[r] = Unset
           /\ \A op \in {"lftp_download", "lftp_upload"}, slot \in Slots :
                Call(op, slot) \notin calls[r] /\ Failure(op, slot) \notin calls[r]
           /\ Call("start_server", t) \notin calls[r]
           /\ Failure("finalize_login", t) \notin calls[r]
           /\ writes[r] = 0
           /\ gist = before[r]

\* the harvested data were rejected after the outgoing server had been
\* stopped and its FTP account captured as the source of the transfer
C22_Witness ==
    \E r \in Procs :
      /\ Fatal(r)
      /\ Failure("validation", next_index(r)) \in calls[r]
      /\ Call("stop_server", current_index[r]) \in calls[r]
      /\ Truthy(Get(source_ftp[r], "host", None))

(***************************************************************************)
(* C23: after buy_free_server returned True the new server's id is polled  *)
(* with a budget of 10 attempts: the loop is left for the DNS change at    *)
(* the first attempt that returns an id, an attempt is made only while     *)
(* fewer than 10 have returned nothing, and once 10 have, the run aborts   *)
(* with exit code 1 without a DNS change, an FTP account or a write to the *)
(* state store.                                                            *)
(***************************************************************************)
C23_BoundedPolling ==
    /\ [](\A r \in Procs :
            LET t == next_index(r) IN
              /\ PollAttempts = 10
              /\ attempt[r] \in 0 .. 10
              /\ pc[r] = "target_dns" => Truthy(server_id[r])
              /\ Failure("poll", t) \in calls[r] =>
                   /\ pc[r] \in {"finally", "done"}
                   /\ exit_code[r] = 1
                   /\ attempt[r] = 10
                   /\ ~Truthy(server_id[r])
                   /\ Call("change_server_dns", t) \notin calls[r]
                   /\ Call("setup_ftp_account", t) \notin calls[r]
                   /\ Call("install_modpack", t) \notin calls[r]
                   /\ writes[r] = 0
                   /\ gist = before[r])
    /\ [][\A r \in Procs :
            pc[r] = "target_poll" =>
              \/ /\ attempt[r] < 10
                 /\ Truthy(server_id'[r])
                 /\ pc'[r] = "target_dns"
              \/ /\ attempt[r] < 10
                 /\ ~Truthy(server_id'[r])
                 /\ pc'[r] = "target_poll"
                 /\ attempt'[r] = attempt[r] + 1
              \/ /\ attempt[r] = 10
                 /\ pc'[r] = "finally"
                 /\ Failure("poll", next_index(r)) \in calls'[r]]_<<pc, attempt>>

\* the order went through and the provider created the server, but none of
\* the 10 attempts found its id
C23_Witness ==
    \E r \in Procs :
      /\ Fatal(r)
      /\ Failure("poll", next_index(r)) \in calls[r]
      /\ Call("server created", next_index(r)) \in calls[r]
      /\ attempt[r] = PollAttempts

(***************************************************************************)
(* C24 (as claimed): the validation of the harvested data accepts them     *)
(* exactly when the four gate predicates hold (server id all digits, FTP   *)
(* host non-empty with the domain marker or a dot, FTP user of length 3 or *)
(* more, session cookie present): data that satisfy the four are not       *)
(* rejected, whatever the length of the host, and data that violate one    *)
(* are not accepted.                                                       *)
(***************************************************************************)
C24_GateDecidesAcceptance ==
    \A r \in Procs :
      /\ Failure("validation", next_index(r)) \in calls[r] =>
           ~ /\ validate_server_info(server_id[r], ftp_info[r].host, ftp_info[r].user)
             /\ HasSession(fresh_cookies[r])
      /\ target_result[r] # NoneDict =>
           /\ validate_server_info(target_result[r].server_id, target_result[r].ftp_host,
                                   target_result[r].ftp_user)
           /\ HasSession(target_result[r].cookies)

(***************************************************************************)
(* C25: within one run the steps follow one another in the order of        *)
(* main() and none is returned to: every browser call against the outgoing *)
(* account comes before every call against the target account, lftp is run *)
(* only once the harvested data passed the validation, start_server is     *)
(* called only once transfer_world_data returned, and the document is sent *)
(* to the store only once step 5 is over.                                  *)
(***************************************************************************)
C25_StepsInOrder ==
    /\ [][\A r \in Procs :
            LET new == calls'[r] \ calls[r]
                out == current_index[r]
                t == next_index(r)
                lftp == {Call(op, slot) : op \in {"lftp_download", "lftp_upload"},
                                          slot \in Slots}
                        \cup {Failure(op, slot) : op \in {"lftp_download", "lftp_upload"},
                                                  slot \in Slots}
            IN /\ pc[r] \notin {"idle", "done"} => Rank(pc'[r]) >= Rank(pc[r])
               /\ (\E e \in new \ lftp : e[2] = out) =>
                    \A e \in calls'[r] \ lftp : e[2] # t
               /\ new \cap lftp # {} =>
                    /\ target_result[r] # NoneDict
                    /\ ~driver[r]
                    /\ Call("install_modpack", t) \in calls[r]
                    /\ Failure("validation", t) \notin calls[r]
               /\ Call("start_server", t) \in new =>
                    /\ TransferReturned(r)
                    /\ pc[r] = "finalize_start"
               /\ writes'[r] > writes[r] =>
                    /\ pc[r] = "save"
                    /\ ~driver[r]
                    /\ TransferReturned(r)
                    /\ new \subseteq {Call("update_state", NoSlot),
                                      Failure("update_state", NoSlot)}]_vars
    /\ [](\A r \in Procs :
            /\ pc[r] \in {"transfer", "transfer_download", "transfer_upload"} =>
                 (target_result[r] # NoneDict /\ ~TransferReturned(r))
            /\ Rank(pc[r]) <= Rank("close_driver_2") =>
                 CallsAgainst(r, next_index(r)) = {}
            /\ Rank(pc[r]) >= Rank("create_driver_5") /\ pc[r] \notin {"finally", "done"} =>
                 TransferReturned(r))

\* a run that went through every step: the outgoing server stopped, the
\* world downloaded and uploaded, the new server started, the write accepted
C25_Witness ==
    \E r \in Procs :
      /\ Success(r)
      /\ Call("stop_server", current_index[r]) \in calls[r]
      /\ Call("lftp_download", current_index[r]) \in calls[r]
      /\ Call("lftp_upload", next_index(r)) \in calls[r]
      /\ Call("start_server", next_index(r)) \in calls[r]

(***************************************************************************)
(* C26: in the persisted document, after any sequence of runs, the         *)
(* server_id, ftp_host, ftp_user and cookies of a slot are those of the    *)
(* seed document or were written together by one run, from the result of   *)
(* one pass of process_target_account that passed the validation: the id   *)
(* and the host are those of one server, the user and the session cookie   *)
(* those of one run, and no write changes only some of the four.           *)
(***************************************************************************)
C26_SlotWrittenWhole ==
    /\ [][\A i \in Slots :
            LET old == gist.accounts[i]
                new == gist'.accounts[i]
            IN (<<new.server_id, new.ftp_host, new.ftp_user, new.cookies>>
                  # <<old.server_id, old.ftp_host, old.ftp_user, old.cookies>>) =>
                 \E r \in Procs :
                   LET res == target_result[r] IN
                     /\ pc[r] = "save" /\ i = next_index(r)
                     /\ Call("install_modpack", i) \in calls[r]
                     /\ Failure("validation", i) \notin calls[r]
                     /\ validate_server_info(res.server_id, res.ftp_host, res.ftp_user)
                     /\ HasSession(res.cookies)
                     /\ new.server_id = res.server_id /\ new.ftp_host = res.ftp_host
                     /\ new.ftp_user = res.ftp_user /\ new.cookies = res.cookies
                     /\ new.email = old.email /\ new.password = old.password]_vars
    /\ [](\A i \in Slots :
            LET acc == gist.accounts[i] IN
              \/ acc \in {DormantAccount(i), LiveAccount(i), SeedNoFtp.accounts[i]}
              \/ /\ \E k \in (FirstClock + 1) .. clock :
                      /\ acc.ftp_user = UserAt(k)
                      /\ acc.cookies = [BOXTOPLAY_SESSION |-> TokenAt(k)]
                 /\ \E n \in SeedServerId .. nextId :
                      /\ acc.server_id = ToDigits(n)
                      /\ acc.ftp_host = HostOf(n))

\* a second rotation wrote a slot that already held the data of a server:
\* all four fields are those of the second pass
C26_Witness ==
    \E r \in Procs :
      LET t == next_index(r) IN
        /\ Success(r)
        /\ Truthy(before[r].accounts[t].server_id)
        /\ gist.accounts[t].server_id # before[r].accounts[t].server_id
        /\ gist.accounts[t].ftp_host # before[r].accounts[t].ftp_host
        /\ gist.accounts[t].ftp_user = UserAt(clock)
        /\ StoredCookie(gist.accounts[t]) = TokenAt(clock)

(***************************************************************************)
(* C27: in every document a run committed, current_server_id and the       *)
(* target account's server_id are strings of digits (the str() of the id   *)
(* the run harvested, never a number); and when every non-null server_id   *)
(* of the loaded document was a string of digits, so is every non-null     *)
(* server_id of the committed one.                                         *)
(***************************************************************************)
C27_ResourceIdsAreDigitStrings ==
    \A r \in Procs :
      LET DigitString(v) == /\ v # None
                            /\ Len(v) > 0
                            /\ \A k \in 1 .. Len(v) : v[k] \in Digits
          NullOrDigits(doc) ==
              /\ Truthy(doc.current_server_id) => DigitString(doc.current_server_id)
              /\ \A i \in Slots : Truthy(doc.accounts[i].server_id)
                                    => DigitString(doc.accounts[i].server_id)
      IN (pc[r] \in {"finally", "done"} /\ exit_code[r] = 0) =>
           /\ DigitString(gist.current_server_id)
           /\ DigitString(gist.accounts[next_index(r)].server_id)
           /\ gist.current_server_id = Str(target_result[r].server_id)
           /\ NullOrDigits(before[r]) => NullOrDigits(gist)

\* the commit of a rotation away from a live server: the new id next to the
\* one the outgoing slot kept from the loaded document
C27_Witness ==
    \E r \in Procs :
      /\ Success(r)
      /\ Cardinality(SlotsWithResourceId(gist)) = Cardinality(Slots)
      /\ gist.current_server_id = ToDigits(nextId - 1)
      /\ gist.accounts[current_index[r]].server_id = before[r].current_server_id

(***************************************************************************)
(* C28: every document update_state sends to the store has passed          *)
(* validate_state_before_save with target_index equal to its new           *)
(* active_account_index: it has exactly two accounts, active_account_index *)
(* in {0, 1}, current_server_id null or all digits, and a target account   *)
(* with a non-null server_id, ftp_host and ftp_user and a session cookie;  *)
(* a document that fails one of these is not sent, and the store keeps the *)
(* document it had.                                                        *)
(***************************************************************************)
C28_OnlyValidDocumentsWritten ==
    \A r \in SeqProcs :
      LET doc == state[r]
          t == next_index(r)
          cur == doc.current_server_id
          valid == /\ DOMAIN doc.accounts = {0, 1}
                   /\ doc.active_account_index \in {0, 1}
                   /\ cur \in {None, <<>>}
                        \/ (Len(cur) > 0 /\ \A k \in 1 .. Len(cur) : cur[k] \in Digits)
                   /\ doc.accounts[t].server_id \notin {None, <<>>}
                   /\ doc.accounts[t].ftp_host \notin {None, <<>>}
                   /\ doc.accounts[t].ftp_user \notin {None, <<>>}
                   /\ "BOXTOPLAY_SESSION" \in DOMAIN doc.accounts[t].cookies
                   /\ doc.accounts[t].cookies["BOXTOPLAY_SESSION"] \notin {None, <<>>}
      IN /\ t = doc.active_account_index
         /\ writes[r] >= 1 => valid
         /\ gist # before[r] => (valid /\ gist = doc)
         /\ (Validated(r) /\ ~valid) =>
              /\ writes[r] = 0
              /\ exit_code[r] = 1
              /\ Failure("validate_state_before_save", NoSlot) \in calls[r]

\* a document without current_server_id and with a complete target account
\* was accepted and replaced the stored one
C28_Witness ==
    \E r \in SeqProcs :
      /\ Done(r)
      /\ writes[r] = 1
      /\ gist = state[r] /\ gist # before[r]
      /\ gist.current_server_id = None

(***************************************************************************)
(* C29: against the outgoing and the incoming account, the stored session  *)
(* cookie is tried first and the credentials only when the cookie was      *)
(* rejected or none is stored; the login counts as failed exactly when     *)
(* both were rejected; and get_current_server_id, change_server_dns,       *)
(* stop_server, buy_free_server, setup_ftp_account and install_modpack are *)
(* only called against an account after one of the two logins went         *)
(* through.                                                                *)
(***************************************************************************)
C29_CookieFirstThenCredentials ==
    /\ [][\A r \in Procs, s \in Slots :
            LET new == calls'[r] \ calls[r]
                stored == Get(Get(state[r].accounts[s], "cookies", <<>>),
                              "BOXTOPLAY_SESSION", <<>>)
                cookie == "login_with_cookie"
                cred == "login_with_credentials"
                login == {Call(cookie, s), Call(cred, s)}
            IN (pc[r] \in {"active", "target_login"} /\ new \cap login # {}) =>
                 /\ IF stored \in {None, <<>>}
                    THEN Call(cookie, s) \notin new /\ Call(cred, s) \in new
                    ELSE Call(cookie, s) \in new
                 /\ Call(cred, s) \in new =>
                      (stored \in {None, <<>>} \/ Rejected(cookie, s) \in new)
                 /\ Failure("login", s) \in new <=> Rejected(cred, s) \in new
                 /\ Failure("login", s) \in new => pc'[r] \in {"close_driver_2", "finally"}]_vars
    /\ [](\A r \in Procs, s \in Slots :
            LET cookie == "login_with_cookie"
                cred == "login_with_credentials"
                passed == \/ /\ Call(cred, s) \in calls[r]
                             /\ Rejected(cred, s) \notin calls[r]
                          \/ /\ Call(cookie, s) \in calls[r]
                             /\ Rejected(cookie, s) \notin calls[r]
                             /\ Call(cred, s) \notin calls[r]
            IN /\ Rejected(cred, s) \in calls[r] => Failure("login", s) \in calls[r]
               /\ Failure("login", s) \in calls[r] =>
                    /\ Rejected(cred, s) \in calls[r]
                    /\ Call(cookie, s) \in calls[r] => Rejected(cookie, s) \in calls[r]
               /\ \A op \in {"get_current_server_id", "change_server_dns", "stop_server",
                             "buy_free_server", "setup_ftp_account", "install_modpack"} :
                    Call(op, s) \in calls[r] => passed)

\* the stored cookie of the outgoing account was rejected, the credentials
\* were accepted, and the server was stopped
C29_Witness ==
    \E r \in Procs :
      /\ Rejected("login_with_cookie", current_index[r]) \in calls[r]
      /\ Call("login_with_credentials", current_index[r]) \in calls[r]
      /\ Rejected("login_with_credentials", current_index[r]) \notin calls[r]
      /\ Call("stop_server", current_index[r]) \in calls[r]

(***************************************************************************)
(* C30: TEMP_DIR is one path for every run.  While a run is between its    *)
(* lftp_download and its lftp_upload, the directory is removed only by a   *)
(* cleanup_temp_dir of the other run (at the end of its transfer or in its *)
(* finally clause); the run's lftp_upload then finds no local path and     *)
(* fails without uploading anything, which happens to no run whose         *)
(* companion has not cleaned up.                                           *)
(***************************************************************************)
C30_SharedScratchInterference ==
    /\ [][\A r \in Procs :
            /\ (pc[r] = "transfer_upload" /\ pc'[r] = pc[r] /\ temp_dir /\ ~temp_dir') =>
                 \E q \in Procs \ {r} :
                   /\ pc[q] \in {"transfer_download", "transfer_upload", "finally"}
                   /\ pc'[q] # pc[q]
            /\ (pc[r] = "transfer_upload" /\ pc'[r] # pc[r] /\ ~temp_dir) =>
                 /\ upload_ok'[r] = "False"
                 /\ transfer_ret'[r] = "False"
                 /\ Failure("lftp_upload", next_index(r)) \in calls'[r]
                 /\ Call("lftp_upload", next_index(r)) \notin calls'[r]]_vars
    /\ [](\A r \in Procs :
            /\ pc[r] = "transfer_upload" => download_ok[r] = "True"
            /\ (pc[r] = "transfer_upload" /\ ~temp_dir) =>
                 \E q \in Procs \ {r} :
                   \/ upload_ok[q] = "True"
                   \/ pc[q] = "done"
                   \/ download_ok[q] = Unset /\ transfer_ret[q] = "False")

\* a run pulled the world, the other run's cleanup removed the directory,
\* and the run's push found no local path
C30_Witness ==
    \E r \in Procs :
      /\ download_ok[r] = "True"
      /\ upload_ok[r] = "False"
      /\ Failure("lftp_upload", next_index(r)) \in calls[r]
      /\ Call("lftp_upload", next_index(r)) \notin calls[r]
      /\ \E q \in Procs \ {r} : upload_ok[q] = "True" \/ pc[q] = "done"

(***************************************************************************)
(* C31: when a run captures the transfer source of an outgoing account     *)
(* whose FTP account was made by the run before it, the password of the    *)
(* source is the password that account was made with, and both are         *)
(* FTP_PASSWORD if set, otherwise the document's ftp_password, otherwise   *)
(* "defaultpass"; with FTP_PASSWORD unset the pull uses the document's     *)
(* ftp_password.                                                           *)
(***************************************************************************)
C31_PullSecretIsCreationSecret ==
    \A r \in SeqProcs :
      LET out == current_index[r]
          src == source_ftp[r]
          resolved == IF FTP_PASSWORD \notin {None, <<>>} THEN FTP_PASSWORD
                      ELSE IF "ftp_password" \in DOMAIN state[r]
                           THEN state[r].ftp_password
                           ELSE DefaultPass
      IN (/\ src # NoneDict /\ src # EmptyDict
          /\ src.host \notin {None, <<>>}
          /\ servers[out].id # 0
          /\ ToDigits(servers[out].id) = state[r].accounts[out].server_id
          /\ servers[out].ftp_pass # None) =>
           /\ src.password = servers[out].ftp_pass
           /\ src.password = resolved

(***************************************************************************)
(* C32: the stored document only changes at the commit of a run, and the   *)
(* commit changes nothing but active_account_index, current_server_id and  *)
(* the target account's server_id, ftp_host, ftp_user and cookies: the     *)
(* outgoing account is stored exactly as it was loaded, the target account *)
(* keeps its email and password, and the document keeps its ftp_password   *)
(* and has no other key or account.                                        *)
(***************************************************************************)
C32_CommitFrame ==
    [][gist' # gist =>
         \E r \in Procs :
           LET loaded == state[r]
               out == current_index[r]
               t == next_index(r)
           IN /\ pc[r] = "save"
              /\ loaded = gist
              /\ DOMAIN gist' = DOMAIN loaded
              /\ gist'.ftp_password = loaded.ftp_password
              /\ DOMAIN gist'.accounts = DOMAIN loaded.accounts
              /\ gist'.accounts[out] = loaded.accounts[out]
              /\ DOMAIN gist'.accounts[t] = DOMAIN loaded.accounts[t]
              /\ gist'.accounts[t].email = loaded.accounts[t].email
              /\ gist'.accounts[t].password = loaded.accounts[t].password
              /\ gist'.active_account_index = t]_vars

\* a run with FTP_PASSWORD set rotated away from a live server: the stored
\* record of the outgoing account and the document's ftp_password are the
\* loaded ones, the target account's record is new
C32_Witness ==
    \E r \in Procs :
      /\ Success(r)
      /\ FTP_PASSWORD = EnvSecret
      /\ before[r].accounts[current_index[r]].server_id # None
      /\ gist.accounts[current_index[r]] = before[r].accounts[current_index[r]]
      /\ gist.accounts[next_index(r)] # before[r].accounts[next_index(r)]
      /\ gist.ftp_password = GistSecret
      /\ gist.active_account_index # before[r].active_account_index

=============================================================================
